---- MODULE Spec2Model ----
(***************************************************************************)
(* Rate-limiting stores and middlewares of z-secure: fixed window, token   *)
(* bucket and leaky bucket, over the in-memory, Redis and PostgreSQL       *)
(* backends.  One key per store is observed; every store keeps its keys    *)
(* independent of each other except for resetAll / the periodic sweep.     *)
(***************************************************************************)
EXTENDS Integers, Sequences, FiniteSets, TLC

(***************************************************************************)
(* Bounds of the exploration                                               *)
(***************************************************************************)
MaxTime == 5
NumReq == 3
MaxUserOps == 2
NumTbReq == 4
MaxTicks == 2
NumPgCalls == 2
MaxPgTicks == 2
NumLbReq == 3
MaxLbTicks == 2
MaxGpTicks == 4
MaxGpOps == 4
NumEpReq == 2
NumMlReq == 4
NumMlClients == 2
MaxMlOps == 2
NumLkCalls == 3
MaxLkOps == 1
MaxLkTicks == 1
MaxTmOps == 3
MaxTmTime == 5
MaxXpTicks == 6

(***************************************************************************)
(* Configuration of the limiters                                           *)
(***************************************************************************)
WindowMs == 4
Limit == 2
MaxTokens == 2
RefillRate == 1
LbBucketCapacity == 10
LbMsPerUnit == 10
LeakRate == 1
MlGlobalLimit == 3
MlClientMaxRequests == 2
MlLeakRate == 2
LkCapacity == 2
LkInterval == 2000

VARIABLES
    now,        \* Date.now(), in milliseconds
    fwBackend,  \* which Store the fixedWindow limiter was constructed with
    fwClient,   \* MemoryFixedWindowStore.clients.get(key): 0 or an object id
    fwHeap,     \* the Client objects, by object id
    fwTimer,    \* MemoryFixedWindowStore.interval: NoTimer or its next firing time
    fwRedis,    \* the Redis key of FixedWindowRedisStore
    fwReq,      \* the running invocations of the fixedWindow middleware
    fwWin,      \* observer: hits counted so far in the aligned window of `now`
    fwGen,      \* observer: how many Client records the memory store has created
    fwOps,      \* observer: user calls of decrement/resetKey/resetAll so far
    fwObs,      \* observer: what the last get returned, and whether it followed a resetKey
    tbBackend,  \* which BucketStore the tokenBucket limiter was constructed with
    tbMem,      \* MemoryTokenBucketStore.clientMap.get(key)
    tbRedis,    \* the Redis hash of RedisTokenBucketStore
    tbReq,      \* the running invocations of the tokenBucket middleware
    tbOps,      \* observer: user calls of get/decrement/resetKey so far
    tbLast,     \* observer: the store operation that ran last
    tbPrev,     \* observer: the refilled level the last increment started from
    tbObs,      \* observer: what the last get, or the call after a resetKey, returned
    pgKind,     \* which relational store is in use: "fw", "tb" or "lb"
    pgRow,      \* the committed row of the key in the store's table
    pgRow0,     \* observer: the row the run started from
    pgConn,     \* the connections of the pg Pool: session state and uncommitted write
    pgMax,      \* the `max` option the Pool was created with
    pgIdle,     \* Pool._idle: the idle connections, most recently released last
    pgWait,     \* Pool._pendingQueue: the calls whose pool.query waits for a client
    pgLock,     \* the connection whose open transaction holds the row lock, or 0
    pgCall,     \* the running store calls
    pgLog,      \* observer: the calls that returned, in order of return
    pgOverlap,  \* observer: two calls have been in progress at the same time
    lbStore,    \* the { used, lastUpdated } record the leakyBucket middleware keeps per key
    lbReq,      \* the running invocations of the leakyBucket middleware
    dfConfig,   \* skipFailedRequests / skipSuccessfulRequests of the limiter
    dfSuccess,  \* requestWasSuccessful(request, response) of the observed request
    dfEnded,    \* response.writableEnded
    dfEmitted,  \* the response events emitted so far
    dfListener, \* the invocations of the listeners registered for the request
    dfDecremented, \* the `decremented` flag of the request's closure
    dfDecCalls, \* observer: how many times store.decrement(key) has been invoked
    gpA,        \* a MemoryTokenBucketStore record driven by increment/decrement only
    gpB,        \* the same record in a run that also calls get
    gpRetA,     \* observer: totalHits returned by the last increment on gpA
    gpRetB,     \* observer: totalHits returned by the last increment on gpB
    gpOps,      \* observer: store calls made so far in the paired runs
    epCfg,      \* which middleware handles the requests, and its passOnStoreError
    epReq,      \* the requests: position in the middleware and what it has called
    mlCfg,      \* passOnStoreError of the middleware over MemoryLeakyBucketStore
    mlQueue,    \* MemoryLeakyBucketStore.globalQueue: the client ids of the queued requests
    mlCount,    \* MemoryLeakyBucketStore.clientRequestCounts (0 for a missing entry)
    mlReq,      \* the requests handled by the middleware
    mlOps,      \* observer: processRequests/decrement/resetKey/resetAll calls so far
    lkQueue,    \* LeakyBucket.queue: the queued items, head first
    lkTotalCost,        \* LeakyBucket.totalCost
    lkCurrentCapacity,  \* LeakyBucket.currentCapacity, in 1/LkInterval of a cost unit
    lkLastRefill,       \* LeakyBucket.lastRefill (NoRefill for null)
    lkTimer,    \* LeakyBucket.timer: the instant the pending timeout is due (NoLkTimer for undefined)
    lkResolver, \* LeakyBucket.emptyPromiseResolver is set (the promise of isEmpty is pending)
    lkItem,     \* the promises returned by throttle, by call number
    lkArmedFor, \* observer: the head item the pending timer was armed for
    lkResched,  \* observer: a timer fired and found the item it was armed for not admissible
    lkOps,      \* observer: pause/pauseByCost/stopTimer/clear/end calls so far
    lkTicks,    \* observer: clock steps so far
    ksCfg,      \* the kind of the two Redis stores on one backend, and the second one's prefix
    ksDb,       \* the Redis keyspace: who wrote each key ("none" for a key that does not exist)
    ksScan,     \* resetAll of the first store: the reply of KEYS, between KEYS and DEL
    tmTimers,   \* the interval timers that are active: handle and next due instant
    tmInterval, \* MemoryFixedWindowStore.interval: the handle it holds (0 for undefined)
    tmClients,  \* the keys of MemoryFixedWindowStore.clients
    tmOps,      \* observer: init and shutdown calls so far
    tmLast,     \* observer: the last call made on the store
    xpA,        \* the token-bucket hash of a key on Redis, which expires by its TTL
    xpB,        \* the same key in the paired run, in which it is kept forever
    xpRet,      \* what the last CONSUME_TOKEN returned in each run
    xpExpired   \* observer: a CONSUME_TOKEN has found the key expired

fwVars == <<fwBackend, fwClient, fwHeap, fwTimer, fwRedis, fwReq, fwWin, fwGen, fwOps, fwObs>>

tbVars == <<tbBackend, tbMem, tbRedis, tbReq, tbOps, tbLast, tbPrev, tbObs>>

pgVars == <<pgKind, pgMax, pgRow, pgRow0, pgConn, pgIdle, pgWait, pgLock, pgCall, pgLog, pgOverlap>>

lbVars == <<lbStore, lbReq>>

dfVars == <<dfConfig, dfSuccess, dfEnded, dfEmitted, dfListener, dfDecremented, dfDecCalls>>

gpVars == <<gpA, gpB, gpRetA, gpRetB, gpOps>>

\* the limiters of the first part of the module, and the components after them
coreVars == <<fwVars, tbVars, pgVars, lbVars, dfVars>>
epVars == <<epCfg, epReq>>
mlVars == <<mlCfg, mlQueue, mlCount, mlReq, mlOps>>
lkVars == <<lkQueue, lkTotalCost, lkCurrentCapacity, lkLastRefill, lkTimer, lkResolver,
            lkItem, lkArmedFor, lkResched, lkOps, lkTicks>>
ksVars == <<ksCfg, ksDb, ksScan>>
tmVars == <<tmTimers, tmInterval, tmClients, tmOps, tmLast>>
xpVars == <<xpA, xpB, xpRet, xpExpired>>
restVars == <<gpVars, epVars, mlVars, lkVars, ksVars, tmVars, xpVars>>

\* what the actions of one component leave alone
gpOthers == <<coreVars, epVars, mlVars, lkVars, ksVars, tmVars, xpVars>>
epOthers == <<coreVars, gpVars, mlVars, lkVars, ksVars, tmVars, xpVars>>
mlOthers == <<coreVars, gpVars, epVars, lkVars, ksVars, tmVars, xpVars>>
lkOthers == <<coreVars, gpVars, epVars, mlVars, ksVars, tmVars, xpVars>>
ksOthers == <<coreVars, gpVars, epVars, mlVars, lkVars, tmVars, xpVars>>
tmOthers == <<coreVars, gpVars, epVars, mlVars, lkVars, ksVars, xpVars>>
xpOthers == <<coreVars, gpVars, epVars, mlVars, lkVars, ksVars, tmVars>>

vars == <<now, coreVars, restVars>>

Max(a, b) == IF a >= b THEN a ELSE b
Min(a, b) == IF a <= b THEN a ELSE b

\* observer record: no get has been made
NoObs == [seq |-> "none", at |-> 0, def |-> FALSE, totalHits |-> 0, resetTime |-> 0]

(***************************************************************************)
(* Fixed window: MemoryFixedWindowStore                                    *)
(***************************************************************************)
Reqs == 1..NumReq
ObjIds == 1..(NumReq + 1)
NoTimer == -1
NullObj == [totalHits |-> 0, resetTime |-> -1]
NoKey == [exists |-> FALSE, val |-> 0, expireAt |-> -1]
IdleReq == [pc |-> "idle", ref |-> 0, used |-> 0, admitted |-> FALSE,
            ord |-> 0, gen |-> 0, alone |-> TRUE, rolled |-> FALSE,
            remaining |-> 0]

\* Objects still reachable from the client map or from a pending promise.
FwLive(client, req) == {o \in ObjIds : o = client \/ \E r \in Reqs : req[r].ref = o}

\* Unreachable Client objects are collected.
FwCollect(heap, client, req) ==
    [o \in ObjIds |-> IF o \in FwLive(client, req) THEN heap[o] ELSE NullObj]

\* new object for `client = { totalHits: 0, resetTime }`
FwNewObj == CHOOSE o \in ObjIds : o \notin FwLive(fwClient, fwReq)

FwWindowStart(t) == (t \div WindowMs) * WindowMs

\* MemoryFixedWindowStore.increment: the client map and heap after the call.
\* The returned value is the Client object itself, fwIncClient.
FwIncFresh == fwClient = 0 \/ fwHeap[fwClient].resetTime <= now
FwIncClient == IF FwIncFresh THEN FwNewObj ELSE fwClient
FwIncHeap ==
    IF FwIncFresh
    THEN [fwHeap EXCEPT ![FwNewObj] =
            [totalHits |-> 1, resetTime |-> FwWindowStart(now) + WindowMs]]
    ELSE [fwHeap EXCEPT ![fwClient].totalHits = @ + 1]

\* observer: the call finds a stored record whose resetTime has passed
FwIncRollover == fwClient # 0 /\ fwHeap[fwClient].resetTime <= now

\* observer: the record generation the call counts on
FwIncGen == IF FwIncFresh THEN fwGen + 1 ELSE fwGen

\* MemoryFixedWindowStore.decrement
FwDecHeap ==
    IF fwClient # 0 /\ fwHeap[fwClient].totalHits > 0
    THEN [fwHeap EXCEPT ![fwClient].totalHits = @ - 1]
    ELSE fwHeap

(***************************************************************************)
(* Fixed window: FixedWindowRedisStore                                     *)
(***************************************************************************)
\* A key whose PEXPIRE deadline has passed no longer exists.
RedisLive(kv) == kv.exists /\ (kv.expireAt = -1 \/ now < kv.expireAt)

\* scripts.increment: INCR, then PEXPIRE windowMs when the key has no TTL.
FwRedisIncr(kv) ==
    IF RedisLive(kv)
    THEN [exists |-> TRUE, val |-> kv.val + 1,
          expireAt |-> IF kv.expireAt = -1 THEN now + WindowMs ELSE kv.expireAt]
    ELSE [exists |-> TRUE, val |-> 1, expireAt |-> now + WindowMs]

\* FixedWindowRedisStore.decrement: client.decr(key)
FwRedisDecr(kv) ==
    IF RedisLive(kv)
    THEN [kv EXCEPT !.val = @ - 1]
    ELSE [exists |-> TRUE, val |-> -1, expireAt |-> -1]

(***************************************************************************)
(* Fixed window: the fixedWindow middleware                                *)
(***************************************************************************)
\* observer: the ordinal of a hit inside the aligned window of `now`
FwWinNext ==
    IF fwWin.idx = now \div WindowMs
    THEN [fwWin EXCEPT !.n = @ + 1]
    ELSE [idx |-> now \div WindowMs, n |-> 1]

FwInFlight(r) == fwReq[r].pc = "awaitInc"

\* `await config.store.increment(key)`: the store's increment runs, the
\* middleware is suspended on the returned promise.  Requests are numbered
\* in the order of their calls.
FwCallIncrement(r) ==
    /\ fwReq[r].pc = "idle"
    /\ \A q \in Reqs : q < r => fwReq[q].pc # "idle"
    /\ fwWin' = FwWinNext
    /\ LET others == \E q \in Reqs : FwInFlight(q)
           mark == [q \in Reqs |->
                      IF FwInFlight(q) THEN [fwReq[q] EXCEPT !.alone = FALSE]
                      ELSE fwReq[q]]
       IN IF fwBackend = "memory"
          THEN /\ fwClient' = FwIncClient
               /\ fwHeap' = FwIncHeap
               /\ fwReq' = [mark EXCEPT ![r] =
                     [pc |-> "awaitInc", ref |-> FwIncClient, used |-> 0,
                      admitted |-> FALSE, ord |-> FwWinNext.n,
                      gen |-> FwIncGen, alone |-> ~others,
                      rolled |-> FwIncRollover, remaining |-> 0]]
               /\ fwGen' = FwIncGen
               /\ UNCHANGED fwRedis
          ELSE /\ fwRedis' = FwRedisIncr(fwRedis)
               /\ fwReq' = [mark EXCEPT ![r] =
                     [pc |-> "awaitInc", ref |-> 0,
                      used |-> FwRedisIncr(fwRedis).val,
                      admitted |-> FALSE, ord |-> FwWinNext.n,
                      gen |-> 0, alone |-> ~others, rolled |-> FALSE,
                      remaining |-> 0]]
               /\ UNCHANGED <<fwClient, fwHeap, fwGen>>
    /\ fwObs' = NoObs
    /\ UNCHANGED <<now, fwBackend, fwTimer, fwOps, restVars, tbVars, pgVars, lbVars, dfVars>>

\* The promise resolves: totalHits is read from the result and the request
\* is admitted unless totalHits > limit.  The promises of one store resolve
\* in the order of the calls.
FwHits(r) == IF fwBackend = "memory" THEN fwHeap[fwReq[r].ref].totalHits
             ELSE fwReq[r].used
FwAdmit(totalHits) == ~(totalHits > Limit)

\* info.remaining: Math.max(limit - totalHits, 0)
FwRemaining(totalHits) == Max(Limit - totalHits, 0)

FwResume(r) ==
    /\ fwReq[r].pc = "awaitInc"
    /\ \A q \in Reqs : q < r => fwReq[q].pc = "done"
    /\ LET req == [fwReq EXCEPT ![r] =
                     [@ EXCEPT !.pc = "done", !.ref = 0, !.used = FwHits(r),
                               !.admitted = FwAdmit(FwHits(r)),
                               !.remaining = FwRemaining(FwHits(r))]]
       IN /\ fwReq' = req
          /\ fwHeap' = FwCollect(fwHeap, fwClient, req)
    /\ UNCHANGED <<now, fwObs, fwBackend, fwClient, fwTimer, fwRedis, fwWin, fwGen, fwOps, restVars, tbVars, pgVars, lbVars, dfVars>>

\* store.decrement(key), called by the limiter's user or by a deferred reversal
FwDecrement ==
    /\ fwOps < MaxUserOps
    /\ fwOps' = fwOps + 1
    /\ IF fwBackend = "memory"
       THEN fwHeap' = FwDecHeap /\ UNCHANGED fwRedis
       ELSE fwRedis' = FwRedisDecr(fwRedis) /\ UNCHANGED fwHeap
    /\ fwObs' = NoObs
    /\ UNCHANGED <<now, fwBackend, fwClient, fwTimer, fwReq, fwWin, fwGen, restVars, tbVars, pgVars, lbVars, dfVars>>

\* store.resetKey(key): clients.delete(key) / client.del(key)
FwResetKey ==
    /\ fwOps < MaxUserOps
    /\ fwOps' = fwOps + 1
    /\ IF fwBackend = "memory"
       THEN /\ fwClient' = 0
            /\ fwHeap' = FwCollect(fwHeap, 0, fwReq)
            /\ UNCHANGED fwRedis
       ELSE fwRedis' = NoKey /\ UNCHANGED <<fwClient, fwHeap>>
    /\ fwObs' = [NoObs EXCEPT !.seq = "resetKey", !.at = now]
    /\ UNCHANGED <<now, fwBackend, fwTimer, fwReq, fwWin, fwGen, restVars, tbVars, pgVars, lbVars, dfVars>>

\* what MemoryFixedWindowStore.get(key) returns now: clients.get(key)
FwGetResult ==
    IF fwClient = 0 THEN [def |-> FALSE, totalHits |-> 0, resetTime |-> 0]
    ELSE [def |-> TRUE, totalHits |-> fwHeap[fwClient].totalHits,
          resetTime |-> fwHeap[fwClient].resetTime]

\* store.get(key) on the memory store
FwGet ==
    /\ fwBackend = "memory"
    /\ fwObs' = [seq |-> IF fwObs.seq = "resetKey" /\ fwObs.at = now
                         THEN "resetKey;get" ELSE "get",
                 at |-> now, def |-> FwGetResult.def,
                 totalHits |-> FwGetResult.totalHits,
                 resetTime |-> FwGetResult.resetTime]
    /\ UNCHANGED <<now, fwBackend, fwClient, fwHeap, fwTimer, fwRedis, fwReq, fwWin, fwGen, fwOps, restVars, tbVars, pgVars, lbVars, dfVars>>

\* The setInterval callback of MemoryFixedWindowStore.init: resetAll()
FwSweep ==
    /\ fwTimer # NoTimer
    /\ now >= fwTimer
    /\ fwTimer' = fwTimer + WindowMs
    /\ fwClient' = 0
    /\ fwHeap' = FwCollect(fwHeap, 0, fwReq)
    /\ UNCHANGED <<now, fwObs, fwBackend, fwRedis, fwReq, fwWin, fwGen, fwOps, restVars, tbVars, pgVars, lbVars, dfVars>>

\* A millisecond passes; a due sweep fires before the clock moves on.
FwTick ==
    /\ now < MaxTime
    /\ fwTimer = NoTimer \/ now < fwTimer
    /\ now' = now + 1
    /\ UNCHANGED <<restVars, fwVars, tbVars, pgVars, lbVars, dfVars>>

\* The limiter is constructed at an arbitrary instant; init() arms the sweep.
FwInit ==
    /\ now \in 0..(WindowMs - 1)
    /\ fwBackend \in {"memory", "redis"}
    /\ fwClient = 0
    /\ fwHeap = [o \in ObjIds |-> NullObj]
    /\ fwTimer = IF fwBackend = "memory" THEN now + WindowMs ELSE NoTimer
    /\ fwRedis = NoKey
    /\ fwReq = [r \in Reqs |-> IdleReq]
    /\ fwWin = [idx |-> 0, n |-> 0]
    /\ fwGen = 0
    /\ fwOps = 0
    /\ fwObs = NoObs

\* The limiters that a specification does not exercise stay as constructed.
FwIdle ==
    /\ fwBackend = "memory"
    /\ fwClient = 0
    /\ fwHeap = [o \in ObjIds |-> NullObj]
    /\ fwTimer = NoTimer
    /\ fwRedis = NoKey
    /\ fwReq = [r \in Reqs |-> IdleReq]
    /\ fwWin = [idx |-> 0, n |-> 0]
    /\ fwGen = 0
    /\ fwOps = 0
    /\ fwObs = NoObs

FwNext ==
    \/ \E r \in Reqs : FwCallIncrement(r)
    \/ \E r \in Reqs : FwResume(r)
    \/ FwDecrement
    \/ FwResetKey
    \/ FwGet
    \/ FwSweep
    \/ FwTick


(***************************************************************************)
(* Token bucket: MemoryTokenBucketStore                                    *)
(***************************************************************************)
TbReqs == 1..NumTbReq
NoClient == [exists |-> FALSE, tokens |-> 0, lastRefillTime |-> 0]
NoHash == [exists |-> FALSE, tokens |-> 0, lastRefillTime |-> -1, expireAt |-> -1]
IdleTbReq == [pc |-> "idle", at |-> 0, ret |-> 0, pre |-> 0, admitted |-> FALSE]

\* init(): refillInterval = 1000 / refillRate, tokensPerInterval = refillRate
RefillInterval == 1000 \div RefillRate
TokensPerInterval == RefillRate

\* getClient: a missing key gets a full bucket stamped with Date.now()
TbGetClient(c) ==
    IF c.exists THEN c
    ELSE [exists |-> TRUE, tokens |-> MaxTokens, lastRefillTime |-> now]

\* Math.floor((elapsedTime / 1000) * tokensPerInterval)
TokensToAdd(elapsedTime) == (elapsedTime * TokensPerInterval) \div 1000

\* refillTokens
TbRefillTokens(c) ==
    IF TokensToAdd(now - c.lastRefillTime) > 0
    THEN [c EXCEPT !.tokens = Min(c.tokens + TokensToAdd(now - c.lastRefillTime), MaxTokens),
                   !.lastRefillTime = now]
    ELSE c

\* MemoryTokenBucketStore.get: refills (and creates) the record
TbMemGet(c) == TbRefillTokens(TbGetClient(c))

\* MemoryTokenBucketStore.increment
TbMemInc(c) ==
    IF TbMemGet(c).tokens > 0
    THEN [TbMemGet(c) EXCEPT !.tokens = @ - 1]
    ELSE TbMemGet(c)

\* a decrement that forgets the capacity ceiling
TbMemDecNoCeiling(c) == [TbGetClient(c) EXCEPT !.tokens = @ + 1]

\* MemoryTokenBucketStore.decrement
TbMemDec(c) ==
    IF TbGetClient(c).tokens < MaxTokens
    THEN [TbGetClient(c) EXCEPT !.tokens = @ + 1]
    ELSE TbGetClient(c)

(***************************************************************************)
(* Token bucket: the Lua scripts of RedisTokenBucketStore                  *)
(***************************************************************************)
TbHashLive(h) == h.exists /\ (h.expireAt = -1 \/ now < h.expireAt)

\* CONSUME_TOKEN up to "Consume token if available": the refilled level.
\* ARGV[1] is the Date.now() of the calling process (t); the expiry of the
\* key runs on the server's clock (now)
TbScriptRefilledAt(h, t) ==
    LET fresh == ~TbHashLive(h) \/ h.lastRefillTime = -1
        currentTokens == IF fresh THEN MaxTokens ELSE h.tokens
        lastRefillTime == IF fresh THEN t ELSE h.lastRefillTime
    IN Min(currentTokens + TokensToAdd(Max(0, t - lastRefillTime)), MaxTokens)

TbScriptRefilled(h) == TbScriptRefilledAt(h, now)

\* EXPIRE key math.ceil(bucketCapacity * refillInterval / 1000), in ms
TbTtlMsOneInterval == RefillInterval
TbTtlMs == ((MaxTokens * RefillInterval + 999) \div 1000) * 1000

\* CONSUME_TOKEN: HMSET tokens/lastRefillTime, EXPIRE ceil(capacity * refillInterval / 1000) s
TbConsumeTokenAt(h, t) ==
    [exists |-> TRUE,
     tokens |-> IF TbScriptRefilledAt(h, t) > 0 THEN TbScriptRefilledAt(h, t) - 1
                ELSE TbScriptRefilledAt(h, t),
     lastRefillTime |-> t,
     expireAt |-> now + TbTtlMs]

TbConsumeToken(h) == TbConsumeTokenAt(h, now)

\* RETURN_TOKEN: HSET tokens min(currentTokens + 1, capacity)
TbReturnToken(h) ==
    IF TbHashLive(h)
    THEN [h EXCEPT !.tokens = Min(h.tokens + 1, MaxTokens)]
    ELSE [exists |-> TRUE, tokens |-> Min(0 + 1, MaxTokens),
          lastRefillTime |-> -1, expireAt |-> -1]

\* RESET_CLIENT: HMSET tokens capacity, lastRefillTime now
TbResetClient(h) ==
    [exists |-> TRUE, tokens |-> MaxTokens, lastRefillTime |-> now,
     expireAt |-> IF TbHashLive(h) THEN h.expireAt ELSE -1]

\* RedisTokenBucketStore.get: HGETALL, undefined for an empty reply, else the
\* stored fields as they are
TbRedisGetResult(h) ==
    IF TbHashLive(h)
    THEN [def |-> TRUE, totalHits |-> h.tokens,
          resetTime |-> (IF h.lastRefillTime = -1 THEN now ELSE h.lastRefillTime)
                           + RefillInterval]
    ELSE [def |-> FALSE, totalHits |-> 0, resetTime |-> 0]

\* MemoryTokenBucketStore.get: the record after getClient and refillTokens
TbMemGetResult(c) ==
    [def |-> TRUE, totalHits |-> TbMemGet(c).tokens,
     resetTime |-> TbMemGet(c).lastRefillTime + RefillInterval]

(***************************************************************************)
(* Token bucket: the tokenBucket middleware                                *)
(***************************************************************************)
\* observer: the call follows a resetKey made at this instant
TbAfterReset == tbObs.seq \in {"resetKey", "resetKey;get"} /\ tbObs.at = now

\* what store.get(key) returns now
TbGetResult ==
    IF tbBackend = "memory" THEN TbMemGetResult(tbMem) ELSE TbRedisGetResult(tbRedis)

\* what store.increment(key) returns (totalHits) to a caller whose clock shows t
TbIncResultAt(t) ==
    IF tbBackend = "memory" THEN TbMemInc(tbMem).tokens ELSE TbConsumeTokenAt(tbRedis, t).tokens

TbIncResult == TbIncResultAt(now)

\* the stored level of the observed key, on the limiter's backend
TbStored ==
    IF tbBackend = "memory" THEN tbMem.tokens ELSE tbRedis.tokens
TbExists ==
    IF tbBackend = "memory" THEN tbMem.exists ELSE TbHashLive(tbRedis)

\* the level right after the refill step of an increment, before the consume
TbRefilledAt(t) ==
    IF tbBackend = "memory" THEN TbMemGet(tbMem).tokens ELSE TbScriptRefilledAt(tbRedis, t)

TbRefilled == TbRefilledAt(now)

\* `if (tokensRemaining == 0)` the handler rejects, else next()
TbAdmit(tokensRemaining) == ~(tokensRemaining = 0)

\* the RateLimitInfo the middleware publishes: used: tokensRemaining,
\* remaining: Math.max(limit - tokensRemaining, 0)
TbInfo(tokensRemaining) ==
    [limit |-> MaxTokens, used |-> tokensRemaining,
     remaining |-> Max(MaxTokens - tokensRemaining, 0)]

\* the requests that have called store.increment, numbered in call order
TbCalled == {r \in TbReqs : tbReq[r].pc # "idle"}

\* the model's clock step: half a refill interval
TickMs == RefillInterval \div 2

\* `await config.store.increment(key)` in a process whose Date.now() is t
TbCallIncrementAt(r, t) ==
    /\ tbReq[r].pc = "idle"
    /\ \A q \in TbReqs : q < r => tbReq[q].pc # "idle"
    /\ tbLast' = "increment"
    /\ IF tbBackend = "memory"
       THEN tbMem' = TbMemInc(tbMem) /\ UNCHANGED tbRedis
       ELSE tbRedis' = TbConsumeTokenAt(tbRedis, t) /\ UNCHANGED tbMem
    /\ tbPrev' = TbRefilledAt(t)
    /\ tbObs' = IF TbAfterReset
                THEN [seq |-> "resetKey;increment", at |-> now, def |-> TRUE,
                      totalHits |-> TbIncResultAt(t), resetTime |-> 0]
                ELSE NoObs
    /\ tbReq' = [tbReq EXCEPT ![r] =
             [pc |-> "awaitInc", at |-> now,
              ret |-> TbIncResultAt(t),
              pre |-> TbRefilledAt(t), admitted |-> FALSE]]
    /\ UNCHANGED <<now, restVars, fwVars, pgVars, lbVars, dfVars, tbBackend, tbOps>>

\* the limiter's own process: its clock is the reference clock
TbCallIncrement(r) == TbCallIncrementAt(r, now)

\* a second process sharing the Redis backend, whose clock is behind by one
\* clock step
TbClockLag == TickMs
TbCallIncrementLate(r) ==
    /\ tbBackend = "redis"
    /\ now >= TbClockLag
    /\ TbCallIncrementAt(r, now - TbClockLag)

\* the promise resolves: tokensRemaining = incrementResult.totalHits; the
\* promises of one store resolve in the order of the calls
TbResume(r) ==
    /\ tbReq[r].pc = "awaitInc"
    /\ \A q \in TbReqs : q < r => tbReq[q].pc = "done"
    /\ tbReq' = [tbReq EXCEPT ![r].pc = "done",
                              ![r].admitted = TbAdmit(tbReq[r].ret)]
    /\ UNCHANGED <<now, restVars, fwVars, pgVars, lbVars, dfVars, tbBackend, tbMem, tbRedis, tbOps, tbLast, tbPrev, tbObs>>

\* store.decrement(key)
TbDecrement ==
    /\ tbOps < MaxUserOps
    /\ tbOps' = tbOps + 1
    /\ tbLast' = IF tbLast = "increment" /\ tbReq[Cardinality(TbCalled)].at = now
                 THEN "increment;decrement" ELSE "decrement"
    /\ IF tbBackend = "memory"
       THEN tbMem' = TbMemDec(tbMem) /\ UNCHANGED tbRedis
       ELSE tbRedis' = TbReturnToken(tbRedis) /\ UNCHANGED tbMem
    /\ tbObs' = NoObs
    /\ UNCHANGED <<now, restVars, fwVars, pgVars, lbVars, dfVars, tbBackend, tbReq, tbPrev>>

\* store.get(key): the memory store refills in place, the Redis store only reads
TbGet ==
    /\ tbOps < MaxUserOps
    /\ tbOps' = tbOps + 1
    /\ tbLast' = "get"
    /\ IF tbBackend = "memory"
       THEN tbMem' = TbMemGet(tbMem) /\ UNCHANGED tbRedis
       ELSE UNCHANGED <<tbMem, tbRedis>>
    /\ tbObs' = [seq |-> IF TbAfterReset THEN "resetKey;get" ELSE "get", at |-> now,
                 def |-> TbGetResult.def, totalHits |-> TbGetResult.totalHits,
                 resetTime |-> TbGetResult.resetTime]
    /\ UNCHANGED <<now, restVars, fwVars, pgVars, lbVars, dfVars, tbBackend, tbReq, tbPrev>>

\* store.resetKey(key)
TbResetKey ==
    /\ tbOps < MaxUserOps
    /\ tbOps' = tbOps + 1
    /\ tbLast' = "resetKey"
    /\ IF tbBackend = "memory"
       THEN tbMem' = NoClient /\ UNCHANGED tbRedis
       ELSE tbRedis' = TbResetClient(tbRedis) /\ UNCHANGED tbMem
    /\ tbObs' = [NoObs EXCEPT !.seq = "resetKey", !.at = now]
    /\ UNCHANGED <<now, restVars, fwVars, pgVars, lbVars, dfVars, tbBackend, tbReq, tbPrev>>

\* half a second passes
TbTick ==
    /\ now < MaxTicks * TickMs
    /\ now' = now + TickMs
    /\ UNCHANGED <<restVars, fwVars, tbVars, pgVars, lbVars, dfVars>>

TbInit ==
    /\ now = 0
    /\ tbBackend \in {"memory", "redis"}
    /\ tbMem = NoClient
    /\ tbRedis = NoHash
    /\ tbReq = [r \in TbReqs |-> IdleTbReq]
    /\ tbOps = 0
    /\ tbLast = "none"
    /\ tbPrev = 0
    /\ tbObs = NoObs

TbIdle ==
    /\ tbBackend = "memory"
    /\ tbMem = NoClient
    /\ tbRedis = NoHash
    /\ tbReq = [r \in TbReqs |-> IdleTbReq]
    /\ tbOps = 0
    /\ tbLast = "none"
    /\ tbPrev = 0
    /\ tbObs = NoObs

TbNext ==
    \/ \E r \in TbReqs : TbCallIncrement(r)
    \/ \E r \in TbReqs : TbResume(r)
    \/ TbDecrement
    \/ TbGet
    \/ TbResetKey
    \/ TbTick

\* two processes with skewed clocks on one Redis backend
TbSkewNext ==
    \/ \E r \in TbReqs : TbCallIncrement(r)
    \/ \E r \in TbReqs : TbCallIncrementLate(r)
    \/ \E r \in TbReqs : TbResume(r)
    \/ TbDecrement
    \/ TbGet
    \/ TbResetKey
    \/ TbTick


(***************************************************************************)
(* Relational stores: PostgresFixedWindowStore ("fw"),                     *)
(* PostgresTokenBucketStore ("tb") and PostgresLeakyBucketStore ("lb").    *)
(* Every statement of a call is its own pool.query: the pool hands out the *)
(* most recently released idle connection, or opens a new one while it has *)
(* fewer than `max`, or queues the request; the server runs the statement  *)
(* in that connection's session, and the connection goes back to the pool. *)
(* Levels of "lb" are in tenths.                                           *)
(***************************************************************************)
\* one call has one statement in flight, so the pool never needs more
\* connections than there are calls
Conns == 1..NumPgCalls

\* PostgresLeakyBucketStore counts in units of leak_rate * 1 ms (a tenth of a
\* request): the default capacity and the cost of one request in that unit
LbCapacity == LbBucketCapacity * LbMsPerUnit
LbUnit == LbMsPerUnit
PgCalls == 1..NumPgCalls
NoRow == [exists |-> FALSE, level |-> 0, stamp |-> 0]
NoWrite == [has |-> FALSE, row |-> NoRow]
NewConn == [created |-> FALSE, state |-> "idle", pending |-> NoWrite]
IdleCall == [op |-> "none", pc |-> "idle", conn |-> 0,
             now0 |-> 0, todo |-> <<>>, ret |-> 0]

Upd(level, setStamp, stamp) ==
    [ins |-> FALSE, level |-> level, setStamp |-> setStamp, stamp |-> stamp]
Ins(level, stamp) ==
    [ins |-> TRUE, level |-> level, setStamp |-> TRUE, stamp |-> stamp]

\* PostgresTokenBucketStore: Math.min(tokens + floor(timeSince / windowMs) * refillRate, maxTokens)
PgNewTokens(rd, t) ==
    Min(rd.level + ((t - rd.stamp) \div WindowMs) * RefillRate, MaxTokens)

\* PostgresLeakyBucketStore: Math.min(remaining_capacity + elapsed * leak_rate, bucket_capacity)
PgNewRemaining(rd, t) ==
    Min(rd.level + (t - rd.stamp), LbCapacity)

\* PostgresFixedWindowStore.increment after its SELECT: the write it issues
PgFwIncPlan(rd, t) ==
    IF rd.exists
    THEN IF rd.stamp <= t
         THEN <<Upd(1, TRUE, t + WindowMs)>>
         ELSE <<Upd(rd.level + 1, FALSE, 0)>>
    ELSE <<Ins(1, t + WindowMs)>>
PgFwIncRet(rd, t) ==
    IF rd.exists /\ ~(rd.stamp <= t) THEN rd.level + 1 ELSE 1

\* PostgresTokenBucketStore.increment after its SELECT
PgTbIncPlan(rd, t) ==
    IF rd.exists
    THEN IF PgNewTokens(rd, t) # rd.level
         THEN <<Upd(PgNewTokens(rd, t), TRUE, t)>> ELSE <<>>
    ELSE <<Ins(MaxTokens, t)>>
PgTbIncRet(rd, t) == IF rd.exists THEN PgNewTokens(rd, t) ELSE MaxTokens

\* PostgresTokenBucketStore.decrement after its SELECT
PgTbDecPlan(rd, t) ==
    IF rd.exists
    THEN (IF PgNewTokens(rd, t) # rd.level
          THEN <<Upd(PgNewTokens(rd, t), TRUE, t)>> ELSE <<>>)
         \o (IF PgNewTokens(rd, t) > 0
             THEN <<Upd(PgNewTokens(rd, t) - 1, FALSE, 0)>> ELSE <<>>)
    ELSE <<Ins(MaxTokens - 1, t)>>
PgTbDecRet(rd, t) ==
    IF rd.exists /\ PgNewTokens(rd, t) > 0 THEN PgNewTokens(rd, t) - 1 ELSE 0

\* PostgresLeakyBucketStore.increment after its SELECT
PgLbIncPlan(rd, t) ==
    IF rd.exists
    THEN IF PgNewRemaining(rd, t) > 0
         THEN <<Upd(PgNewRemaining(rd, t) - LbUnit, TRUE, t)>> ELSE <<>>
    ELSE <<Ins(LbCapacity - LbUnit, t)>>
PgLbIncRet(rd, t) ==
    IF rd.exists
    THEN IF PgNewRemaining(rd, t) > 0 THEN PgNewRemaining(rd, t) - LbUnit ELSE 0
    ELSE LbCapacity - LbUnit

\* PostgresLeakyBucketStore.decrement after its SELECT
PgLbDecPlan(rd, t) ==
    IF rd.exists /\ PgNewRemaining(rd, t) > 0
    THEN <<Upd(PgNewRemaining(rd, t) - LbUnit, TRUE, t)>> ELSE <<>>

PgPlan(op, rd, t) ==
    CASE pgKind = "fw" -> PgFwIncPlan(rd, t)
      [] pgKind = "tb" /\ op = "increment" -> PgTbIncPlan(rd, t)
      [] pgKind = "tb" /\ op = "decrement" -> PgTbDecPlan(rd, t)
      [] pgKind = "lb" /\ op = "increment" -> PgLbIncPlan(rd, t)
      [] pgKind = "lb" /\ op = "decrement" -> PgLbDecPlan(rd, t)
PgRet(op, rd, t) ==
    CASE pgKind = "fw" -> PgFwIncRet(rd, t)
      [] pgKind = "tb" /\ op = "increment" -> PgTbIncRet(rd, t)
      [] pgKind = "tb" /\ op = "decrement" -> PgTbDecRet(rd, t)
      [] pgKind = "lb" /\ op = "increment" -> PgLbIncRet(rd, t)
      [] pgKind = "lb" /\ op = "decrement" -> 0

\* the row a statement sees in the session of connection c
PgVisible(c) == IF pgConn[c].pending.has THEN pgConn[c].pending.row ELSE pgRow

\* the row lock is held by another session's open transaction
PgLockedByOther(c) == pgLock # 0 /\ pgLock # c

\* the connections the pool has opened
PgCreated == {c \in Conns : pgConn[c].created}

\* pool.query(...) -> pool.connect(): the last idle client if there is one,
\* else a new client while the pool is not full, else the request is queued
PgQuery ==
    IF pgIdle # <<>>
    THEN [c |-> pgIdle[Len(pgIdle)], idle |-> SubSeq(pgIdle, 1, Len(pgIdle) - 1)]
    ELSE IF Cardinality(PgCreated) < pgMax
    THEN [c |-> CHOOSE c \in Conns \ PgCreated : \A d \in Conns \ PgCreated : c <= d,
          idle |-> pgIdle]
    ELSE [c |-> 0, idle |-> pgIdle]

PgInProgress(k) == pgCall[k].pc \notin {"idle", "done"}

\* store.increment(key) / store.decrement(key) is called: `now = new Date()`
\* and the first pool.query is issued.  Calls are numbered in the order they
\* are made.
PgStart(k, op) ==
    /\ pgCall[k].pc = "idle"
    /\ \A q \in PgCalls : q < k => pgCall[q].pc # "idle"
    /\ pgCall' = [pgCall EXCEPT ![k] =
          [IdleCall EXCEPT !.op = op, !.now0 = now, !.conn = PgQuery.c,
              !.pc = IF pgKind = "fw" /\ op = "decrement" THEN "UPDATE1" ELSE "BEGIN"]]
    /\ pgIdle' = PgQuery.idle
    /\ pgWait' = IF PgQuery.c = 0 THEN Append(pgWait, k) ELSE pgWait
    /\ pgConn' = IF PgQuery.c = 0 THEN pgConn
                 ELSE [pgConn EXCEPT ![PgQuery.c].created = TRUE]
    /\ pgOverlap' = (pgOverlap \/ \E q \in PgCalls : PgInProgress(q))
    /\ UNCHANGED <<now, restVars, fwVars, tbVars, lbVars, dfVars, pgKind, pgMax, pgRow, pgRow0, pgLock, pgLog>>

\* the session state after COMMIT or ROLLBACK
PgEndTxn(c, commit) ==
    /\ pgRow' = IF commit /\ pgConn[c].state = "txn" /\ pgConn[c].pending.has
                THEN pgConn[c].pending.row ELSE pgRow
    /\ pgConn' = [pgConn EXCEPT ![c].state = "idle", ![c].pending = NoWrite]
    /\ pgLock' = IF pgLock = c THEN 0 ELSE pgLock

\* a row write in the session of c: buffered in an open transaction, else committed
PgWrite(c, row) ==
    IF pgConn[c].state = "txn"
    THEN /\ pgConn' = [pgConn EXCEPT ![c].pending = [has |-> TRUE, row |-> row]]
         /\ pgLock' = c
         /\ UNCHANGED pgRow
    ELSE /\ pgRow' = row
         /\ UNCHANGED <<pgConn, pgLock>>

\* pool.query releases its client when the reply arrives: a queued request
\* takes the client over at once; otherwise the client goes on the idle
\* list, from where the next pool.query of the same call (cont) takes it back
PgReleased(k, rec, cont) ==
    LET c == pgCall[k].conn
        mine == [pgCall EXCEPT ![k] =
                    [rec EXCEPT !.conn = IF cont /\ pgWait = <<>> THEN c ELSE 0]]
    IN /\ pgCall' = IF pgWait = <<>> THEN mine
                    ELSE [mine EXCEPT ![Head(pgWait)].conn = c]
       /\ pgWait' = IF pgWait = <<>> THEN pgWait
                    ELSE IF cont THEN Append(Tail(pgWait), k) ELSE Tail(pgWait)
       /\ pgIdle' = IF pgWait = <<>> /\ ~cont THEN Append(pgIdle, c) ELSE pgIdle

\* the call returns (ok) or throws (~ok)
PgFinish(k, ok) ==
    /\ pgLog' = Append(pgLog, [op |-> pgCall[k].op, ret |-> pgCall[k].ret, ok |-> ok])
    /\ PgReleased(k, [IdleCall EXCEPT !.pc = "done"], FALSE)

\* the call goes on to its next statement
PgGoto(k, pc) ==
    /\ PgReleased(k, [pgCall[k] EXCEPT !.pc = pc], TRUE)
    /\ UNCHANGED pgLog

\* after a write has returned: the next write of the call, or COMMIT once
\* every write of the call has returned
PgAfterWriteCommit(todo) == "COMMIT"
PgAfterWrite(todo) == IF Len(todo) > 1 THEN "WRITE" ELSE "COMMIT"

\* the server runs the statement in flight and the reply reaches the call,
\* which issues its next pool.query or returns
PgComplete(k) ==
    LET c == pgCall[k].conn
        stmt == pgCall[k].pc
        aborted == pgConn[c].state = "aborted"
        vis == PgVisible(c)
    IN
    /\ PgInProgress(k)
    /\ c # 0
    /\ CASE stmt = "BEGIN" ->
              IF aborted
              THEN PgFinish(k, FALSE) /\ UNCHANGED <<pgRow, pgConn, pgLock>>
              ELSE /\ pgConn' = [pgConn EXCEPT ![c].state = "txn"]
                   /\ PgGoto(k, "SELECT")
                   /\ UNCHANGED <<pgRow, pgLock>>
         [] stmt = "SELECT" ->
              IF aborted
              THEN PgGoto(k, "ROLLBACK") /\ UNCHANGED <<pgRow, pgConn, pgLock>>
              ELSE /\ ~(vis.exists /\ PgLockedByOther(c))
                   /\ pgLock' = IF vis.exists /\ pgConn[c].state = "txn" THEN c ELSE pgLock
                   /\ PgReleased(k, [pgCall[k] EXCEPT
                         !.todo = PgPlan(pgCall[k].op, vis, pgCall[k].now0),
                         !.ret = PgRet(pgCall[k].op, vis, pgCall[k].now0),
                         !.pc = IF PgPlan(pgCall[k].op, vis, pgCall[k].now0) = <<>>
                                THEN "COMMIT" ELSE "WRITE"], TRUE)
                   /\ UNCHANGED <<pgRow, pgConn, pgLog>>
         [] stmt = "WRITE" ->
              LET cmd == Head(pgCall[k].todo)
                  next == PgAfterWrite(pgCall[k].todo)
                  rest == [pgCall[k] EXCEPT !.todo = Tail(@), !.pc = next]
              IN
              IF aborted
              THEN PgGoto(k, "ROLLBACK") /\ UNCHANGED <<pgRow, pgConn, pgLock>>
              ELSE IF cmd.ins
              THEN /\ ~PgLockedByOther(c)
                   /\ IF vis.exists
                      THEN \* duplicate key: the statement fails, an open transaction aborts
                           /\ pgConn' = [pgConn EXCEPT ![c].state =
                                 IF @ = "txn" THEN "aborted" ELSE @]
                           /\ PgGoto(k, "ROLLBACK")
                           /\ UNCHANGED <<pgRow, pgLock>>
                      ELSE /\ PgWrite(c, [exists |-> TRUE, level |-> cmd.level,
                                          stamp |-> cmd.stamp])
                           /\ PgReleased(k, rest, TRUE)
                           /\ UNCHANGED pgLog
              ELSE IF ~vis.exists
              THEN PgReleased(k, rest, TRUE) /\ UNCHANGED <<pgRow, pgConn, pgLock, pgLog>>
              ELSE /\ ~PgLockedByOther(c)
                   /\ PgWrite(c, [exists |-> TRUE, level |-> cmd.level,
                         stamp |-> IF cmd.setStamp THEN cmd.stamp ELSE vis.stamp])
                   /\ PgReleased(k, rest, TRUE)
                   /\ UNCHANGED pgLog
         [] stmt = "UPDATE1" ->
              \* PostgresFixedWindowStore.decrement: total_hits = GREATEST(total_hits - 1, 0)
              IF aborted
              THEN PgFinish(k, FALSE) /\ UNCHANGED <<pgRow, pgConn, pgLock>>
              ELSE IF ~vis.exists
              THEN PgFinish(k, TRUE) /\ UNCHANGED <<pgRow, pgConn, pgLock>>
              ELSE /\ ~PgLockedByOther(c)
                   /\ PgWrite(c, [vis EXCEPT !.level = Max(vis.level - 1, 0)])
                   /\ PgFinish(k, TRUE)
         [] stmt = "COMMIT" -> PgEndTxn(c, TRUE) /\ PgFinish(k, TRUE)
         [] stmt = "ROLLBACK" -> PgEndTxn(c, FALSE) /\ PgFinish(k, FALSE)
    /\ UNCHANGED <<now, restVars, fwVars, tbVars, lbVars, dfVars, pgKind, pgMax, pgRow0, pgOverlap>>

\* the model's clock step: half a window
PgTickMs == WindowMs \div 2

PgTick ==
    /\ now < MaxPgTicks * PgTickMs
    /\ now' = now + PgTickMs
    /\ UNCHANGED <<restVars, fwVars, tbVars, pgVars, lbVars, dfVars>>

\* rows the key may start from: none, or one left by earlier calls
PgStartRows ==
    CASE pgKind = "fw" -> {NoRow, [exists |-> TRUE, level |-> 1, stamp |-> WindowMs]}
      [] pgKind = "tb" -> {NoRow} \cup
            {[exists |-> TRUE, level |-> n, stamp |-> 0] : n \in 0..MaxTokens}
      [] pgKind = "lb" -> {NoRow, [exists |-> TRUE, level |-> LbCapacity - LbUnit, stamp |-> 0],
                           [exists |-> TRUE, level |-> 0, stamp |-> 0]}

PgInit ==
    /\ now = 0
    /\ pgKind \in {"fw", "tb", "lb"}
    /\ pgMax \in 1..NumPgCalls
    /\ pgRow \in PgStartRows
    /\ pgRow0 = pgRow
    /\ pgConn = [c \in Conns |-> NewConn]
    /\ pgIdle = <<>>
    /\ pgWait = <<>>
    /\ pgLock = 0
    /\ pgCall = [k \in PgCalls |-> IdleCall]
    /\ pgLog = <<>>
    /\ pgOverlap = FALSE

PgIdle ==
    /\ pgKind = "fw"
    /\ pgMax = 1
    /\ pgRow = NoRow
    /\ pgRow0 = NoRow
    /\ pgConn = [c \in Conns |-> NewConn]
    /\ pgIdle = <<>>
    /\ pgWait = <<>>
    /\ pgLock = 0
    /\ pgCall = [k \in PgCalls |-> IdleCall]
    /\ pgLog = <<>>
    /\ pgOverlap = FALSE

PgNext ==
    \/ \E k \in PgCalls : PgStart(k, "increment")
    \/ \E k \in PgCalls : PgStart(k, "decrement")
    \/ \E k \in PgCalls : PgComplete(k)
    \/ PgTick


(***************************************************************************)
(* Leaky bucket, counter-leak shape: the leakyBucket middleware            *)
(***************************************************************************)
LbReqs == 1..NumLbReq
NoInfo == [exists |-> FALSE, used |-> 0, lastUpdated |-> 0]
IdleLbReq == [pc |-> "idle", info |-> NoInfo, admitted |-> FALSE]

\* `bucketInfo?.used || 0` and `bucketInfo?.lastUpdated || now`
LbUsed(info) == IF info.exists THEN info.used ELSE 0
LbLastUpdated(info) ==
    IF info.exists /\ info.lastUpdated # 0 THEN info.lastUpdated ELSE now

\* used = Math.max(0, used - Math.floor(elapsedTime * leakRate))
LbLeaked(info) == Max(0, LbUsed(info) - (now - LbLastUpdated(info)) * LeakRate)

\* `if (used < capacity)`: there is room for one more request
LbHasRoomAtLimit(used) == used <= Limit
LbHasRoom(used) == used < Limit

\* `bucketInfo = await config.store.get(key)`
LbCallGet(r) ==
    /\ lbReq[r].pc = "idle"
    /\ lbReq' = [lbReq EXCEPT ![r].pc = "awaitGet", ![r].info = lbStore]
    /\ UNCHANGED <<now, restVars, fwVars, tbVars, pgVars, dfVars, lbStore>>

\* the read resolves: leak, then either store.set and admit, or reject
LbResumeGet(r) ==
    /\ lbReq[r].pc = "awaitGet"
    /\ IF LbHasRoom(LbLeaked(lbReq[r].info))
       THEN /\ lbStore' = [exists |-> TRUE, used |-> LbLeaked(lbReq[r].info) + 1,
                           lastUpdated |-> now]
            /\ lbReq' = [lbReq EXCEPT ![r].pc = "awaitSet"]
       ELSE /\ lbReq' = [lbReq EXCEPT ![r].pc = "done", ![r].admitted = FALSE]
            /\ UNCHANGED lbStore
    /\ UNCHANGED <<now, restVars, fwVars, tbVars, pgVars, dfVars>>

\* `await config.store.set(...)` resolves: next()
LbResumeSet(r) ==
    /\ lbReq[r].pc = "awaitSet"
    /\ lbReq' = [lbReq EXCEPT ![r].pc = "done", ![r].admitted = TRUE]
    /\ UNCHANGED <<now, restVars, fwVars, tbVars, pgVars, dfVars, lbStore>>

LbTick ==
    /\ now < 1 + MaxLbTicks
    /\ now' = now + 1
    /\ UNCHANGED <<restVars, fwVars, tbVars, pgVars, lbVars, dfVars>>

LbIdle ==
    /\ lbStore = NoInfo
    /\ lbReq = [r \in LbReqs |-> IdleLbReq]

LbInit == now = 1 /\ LbIdle

LbNext ==
    \/ \E r \in LbReqs : LbCallGet(r)
    \/ \E r \in LbReqs : LbResumeGet(r)
    \/ \E r \in LbReqs : LbResumeSet(r)
    \/ LbTick

(***************************************************************************)
(* Deferred reversal: decrementKey and the response listeners that the     *)
(* fixedWindow and tokenBucket middlewares register for one request        *)
(***************************************************************************)
Listeners == {"finishFailed", "close", "error", "finishSuccessful"}

\* the listeners the middleware registers for an event under the configuration
DfRegistered(event) ==
    CASE event = "finish" ->
            (IF dfConfig.skipFailedRequests THEN {"finishFailed"} ELSE {})
            \cup (IF dfConfig.skipSuccessfulRequests THEN {"finishSuccessful"} ELSE {})
      [] event = "close" -> IF dfConfig.skipFailedRequests THEN {"close"} ELSE {}
      [] event = "error" -> IF dfConfig.skipFailedRequests THEN {"error"} ELSE {}

\* decrementKey up to its await: `if (!decremented) await config.store.decrement(key)`
DfEnters == ~dfDecremented

\* response.end() is called by the application or by the rejection handler
DfEnd ==
    /\ ~dfEnded
    /\ "close" \notin dfEmitted
    /\ dfEnded' = TRUE
    /\ UNCHANGED <<now, restVars, fwVars, tbVars, pgVars, lbVars, dfConfig, dfSuccess,
                   dfEmitted, dfListener, dfDecremented, dfDecCalls>>

\* 'finish': both finish listeners start with `await config.requestWasSuccessful(...)`
DfEmitFinish ==
    /\ dfEnded
    /\ dfEmitted \cap {"finish", "close"} = {}
    /\ dfEmitted' = dfEmitted \cup {"finish"}
    /\ dfListener' = [l \in Listeners |->
          IF l \in DfRegistered("finish") THEN "awaitSuccessful" ELSE dfListener[l]]
    /\ UNCHANGED <<now, restVars, fwVars, tbVars, pgVars, lbVars, dfConfig, dfSuccess,
                   dfEnded, dfDecremented, dfDecCalls>>

\* a finish listener resumes and calls decrementKey when its condition holds
DfAfterSuccessful(l) ==
    /\ dfListener[l] = "awaitSuccessful"
    /\ LET wants == IF l = "finishFailed" THEN ~dfSuccess ELSE dfSuccess
       IN IF wants /\ DfEnters
          THEN /\ dfListener' = [dfListener EXCEPT ![l] = "awaitDecrement"]
               /\ dfDecCalls' = dfDecCalls + 1
          ELSE /\ dfListener' = [dfListener EXCEPT ![l] = "end"]
               /\ UNCHANGED dfDecCalls
    /\ UNCHANGED <<now, restVars, fwVars, tbVars, pgVars, lbVars, dfConfig, dfSuccess,
                   dfEnded, dfEmitted, dfDecremented>>

\* 'close': `if (!response.writableEnded) await decrementKey()`
DfEmitClose ==
    /\ "close" \notin dfEmitted
    /\ dfEmitted' = dfEmitted \cup {"close"}
    /\ IF "close" \in DfRegistered("close") /\ ~dfEnded /\ DfEnters
       THEN /\ dfListener' = [dfListener EXCEPT !["close"] = "awaitDecrement"]
            /\ dfDecCalls' = dfDecCalls + 1
       ELSE /\ dfListener' = [dfListener EXCEPT !["close"] =
                  IF "close" \in DfRegistered("close") THEN "end" ELSE @]
            /\ UNCHANGED dfDecCalls
    /\ UNCHANGED <<now, restVars, fwVars, tbVars, pgVars, lbVars, dfConfig, dfSuccess,
                   dfEnded, dfDecremented>>

\* 'error': `await decrementKey()`
DfEmitError ==
    /\ dfEmitted \cap {"error", "close"} = {}
    /\ dfEmitted' = dfEmitted \cup {"error"}
    /\ IF "error" \in DfRegistered("error") /\ DfEnters
       THEN /\ dfListener' = [dfListener EXCEPT !["error"] = "awaitDecrement"]
            /\ dfDecCalls' = dfDecCalls + 1
       ELSE /\ dfListener' = [dfListener EXCEPT !["error"] =
                  IF "error" \in DfRegistered("error") THEN "end" ELSE @]
            /\ UNCHANGED dfDecCalls
    /\ UNCHANGED <<now, restVars, fwVars, tbVars, pgVars, lbVars, dfConfig, dfSuccess,
                   dfEnded, dfDecremented>>

\* `await config.store.decrement(key)` resolves: `decremented = true`
DfDecrementDone(l) ==
    /\ dfListener[l] = "awaitDecrement"
    /\ dfListener' = [dfListener EXCEPT ![l] = "end"]
    /\ dfDecremented' = TRUE
    /\ UNCHANGED <<now, restVars, fwVars, tbVars, pgVars, lbVars, dfConfig, dfSuccess,
                   dfEnded, dfEmitted, dfDecCalls>>

DfIdle ==
    /\ dfConfig = [skipFailedRequests |-> FALSE, skipSuccessfulRequests |-> FALSE]
    /\ dfSuccess = TRUE
    /\ dfEnded = FALSE
    /\ dfEmitted = {}
    /\ dfListener = [l \in Listeners |-> "off"]
    /\ dfDecremented = FALSE
    /\ dfDecCalls = 0

DfInit ==
    /\ now = 0
    /\ dfConfig \in [skipFailedRequests : BOOLEAN, skipSuccessfulRequests : BOOLEAN]
    /\ dfSuccess \in BOOLEAN
    /\ dfEnded = FALSE
    /\ dfEmitted = {}
    /\ dfListener = [l \in Listeners |-> "off"]
    /\ dfDecremented = FALSE
    /\ dfDecCalls = 0

DfNext ==
    \/ DfEnd
    \/ DfEmitFinish
    \/ \E l \in Listeners : DfAfterSuccessful(l)
    \/ DfEmitClose
    \/ DfEmitError
    \/ \E l \in Listeners : DfDecrementDone(l)

(***************************************************************************)
(* Two runs of MemoryTokenBucketStore on one key, fed the same increment   *)
(* and decrement calls at the same instants; the second run also gets      *)
(* store.get(key) calls in between.                                        *)
(***************************************************************************)
GpIncrement ==
    /\ gpOps < MaxGpOps
    /\ gpOps' = gpOps + 1
    /\ gpA' = TbMemInc(gpA)
    /\ gpB' = TbMemInc(gpB)
    /\ gpRetA' = TbMemInc(gpA).tokens
    /\ gpRetB' = TbMemInc(gpB).tokens
    /\ UNCHANGED <<now, gpOthers>>

GpDecrement ==
    /\ gpOps < MaxGpOps
    /\ gpOps' = gpOps + 1
    /\ gpA' = TbMemDec(gpA)
    /\ gpB' = TbMemDec(gpB)
    /\ UNCHANGED <<now, gpOthers, gpRetA, gpRetB>>

\* the extra call of the second run
GpGet ==
    /\ gpOps < MaxGpOps
    /\ gpOps' = gpOps + 1
    /\ gpB' = TbMemGet(gpB)
    /\ UNCHANGED <<now, gpOthers, gpA, gpRetA, gpRetB>>

GpTick ==
    /\ now < MaxGpTicks * TickMs
    /\ now' = now + TickMs
    /\ UNCHANGED <<coreVars, restVars>>

GpIdle ==
    /\ gpA = NoClient
    /\ gpB = NoClient
    /\ gpRetA = 0
    /\ gpRetB = 0
    /\ gpOps = 0

GpNext ==
    \/ GpIncrement
    \/ GpDecrement
    \/ GpGet
    \/ GpTick

(***************************************************************************)
(* The store-error path of the fixedWindow and tokenBucket middlewares,    *)
(* wrapped in handleAsyncErrors                                            *)
(***************************************************************************)
EpReqs == 1..NumEpReq
IdleEpReq == [pc |-> "idle", threw |-> FALSE, nextPlain |-> 0, nextError |-> 0,
              handled |-> 0, info |-> FALSE]

\* the rejection test of the configured middleware on the store's result
EpRejects(hits) ==
    IF epCfg.kind = "fixedWindow" THEN ~FwAdmit(hits) ELSE ~TbAdmit(hits)

\* the middleware is entered: `skip` answers true and next() is called, or
\* store.increment(key) is called and awaited
EpEnter(r, skip) ==
    /\ epReq[r].pc = "idle"
    /\ epReq' = [epReq EXCEPT ![r] =
          IF skip THEN [@ EXCEPT !.pc = "done", !.nextPlain = @ + 1]
          ELSE [@ EXCEPT !.pc = "awaitInc"]]
    /\ UNCHANGED <<now, epOthers, epCfg>>

\* store.increment resolves: the info is attached to the request, then the
\* handler runs or next() is called
EpResolve(r, hits) ==
    /\ epReq[r].pc = "awaitInc"
    /\ epReq' = [epReq EXCEPT ![r] =
          IF EpRejects(hits)
          THEN [@ EXCEPT !.pc = "done", !.info = TRUE, !.handled = @ + 1]
          ELSE [@ EXCEPT !.pc = "done", !.info = TRUE, !.nextPlain = @ + 1]]
    /\ UNCHANGED <<now, epOthers, epCfg>>

\* a catch block that calls next() under passOnStoreError and goes on to
\* `throw error` without returning
EpThrowNoReturn(r) ==
    /\ epReq[r].pc = "awaitInc"
    /\ epReq' = [epReq EXCEPT ![r] =
          IF epCfg.passOnStoreError
          THEN [@ EXCEPT !.pc = "rejected", !.threw = TRUE, !.nextPlain = @ + 1]
          ELSE [@ EXCEPT !.pc = "rejected", !.threw = TRUE]]
    /\ UNCHANGED <<now, epOthers, epCfg>>

\* store.increment throws: under passOnStoreError next() is called and the
\* middleware returns, else the error is rethrown and the promise of the
\* middleware rejects
EpThrow(r) ==
    /\ epReq[r].pc = "awaitInc"
    /\ epReq' = [epReq EXCEPT ![r] =
          IF epCfg.passOnStoreError
          THEN [@ EXCEPT !.pc = "done", !.threw = TRUE, !.nextPlain = @ + 1]
          ELSE [@ EXCEPT !.pc = "rejected", !.threw = TRUE]]
    /\ UNCHANGED <<now, epOthers, epCfg>>

\* handleAsyncErrors: `.catch(next)` delivers the rejection through next(error)
EpCatch(r) ==
    /\ epReq[r].pc = "rejected"
    /\ epReq' = [epReq EXCEPT ![r] = [@ EXCEPT !.pc = "done", !.nextError = @ + 1]]
    /\ UNCHANGED <<now, epOthers, epCfg>>

EpIdle ==
    /\ epCfg = [kind |-> "fixedWindow", passOnStoreError |-> FALSE]
    /\ epReq = [r \in EpReqs |-> IdleEpReq]

EpInit ==
    /\ epCfg \in [kind : {"fixedWindow", "tokenBucket"}, passOnStoreError : BOOLEAN]
    /\ epReq = [r \in EpReqs |-> IdleEpReq]

EpNext ==
    \/ \E r \in EpReqs, skip \in BOOLEAN : EpEnter(r, skip)
    \/ \E r \in EpReqs, hits \in 0..(Limit + 1) : EpResolve(r, hits)
    \/ \E r \in EpReqs : EpThrow(r)
    \/ \E r \in EpReqs : EpCatch(r)

(***************************************************************************)
(* MemoryLeakyBucketStore, and a middleware (tokenBucket) that calls its   *)
(* increment inside the passOnStoreError catch block                       *)
(***************************************************************************)
MlReqs == 1..NumMlReq
MlClients == 1..NumMlClients
IdleMlReq == [pc |-> "idle", client |-> 0, atCapacity |-> FALSE, threw |-> FALSE,
              ret |-> 0, outcome |-> "none"]

\* increment throws 'Server request limit exceeded' / 'Client request limit exceeded'
MlGlobalFull == Len(mlQueue) >= MlGlobalLimit
MlClientFull(c) == mlCount[c] >= MlClientMaxRequests
MlThrows(c) == MlGlobalFull \/ MlClientFull(c)

\* the queue without its first n requests, and how many of them client c had
MlDrop(n) == SubSeq(mlQueue, n + 1, Len(mlQueue))
MlTaken(n, c) == Cardinality({i \in 1..n : mlQueue[i] = c})

\* the middleware calls `await config.store.increment(key)` for client c:
\* MemoryLeakyBucketStore.increment runs.  Requests are numbered in call order.
MlCallIncrement(r, c) ==
    /\ mlReq[r].pc = "idle"
    /\ \A q \in MlReqs : q < r => mlReq[q].pc # "idle"
    /\ IF MlThrows(c)
       THEN UNCHANGED <<mlQueue, mlCount>>
       ELSE /\ mlQueue' = Append(mlQueue, c)
            /\ mlCount' = [mlCount EXCEPT ![c] = @ + 1]
    /\ mlReq' = [mlReq EXCEPT ![r] =
          [pc |-> "awaitInc", client |-> c,
           atCapacity |-> (mlCount[c] = MlClientMaxRequests
                             \/ Len(mlQueue) = MlGlobalLimit),
           threw |-> MlThrows(c),
           ret |-> IF MlThrows(c) THEN 0 ELSE Len(mlQueue) + 1,
           outcome |-> "none"]]
    /\ UNCHANGED <<now, mlOthers, mlCfg, mlOps>>

\* the awaited call settles: the catch block admits under passOnStoreError
\* or rethrows (next(error) through handleAsyncErrors); a returned totalHits
\* goes through the middleware's rejection test
MlResume(r) ==
    /\ mlReq[r].pc = "awaitInc"
    /\ \A q \in MlReqs : q < r => mlReq[q].pc = "done"
    /\ mlReq' = [mlReq EXCEPT ![r] = [@ EXCEPT !.pc = "done", !.outcome =
          IF mlReq[r].threw
          THEN (IF mlCfg.passOnStoreError THEN "next" ELSE "error")
          ELSE (IF TbAdmit(mlReq[r].ret) THEN "next" ELSE "handler")]]
    /\ UNCHANGED <<now, mlOthers, mlCfg, mlQueue, mlCount, mlOps>>

\* processRequests: up to leakRate requests leave the head of the queue
MlProcessRequests ==
    /\ mlOps < MaxMlOps
    /\ mlOps' = mlOps + 1
    /\ LET n == Min(MlLeakRate, Len(mlQueue))
       IN /\ mlQueue' = MlDrop(n)
          /\ mlCount' = [c \in MlClients |-> Max(mlCount[c] - MlTaken(n, c), 0)]
    /\ UNCHANGED <<now, mlOthers, mlCfg, mlReq>>

\* decrement: the client's count goes down, the queue is left as it is
MlDecrement(c) ==
    /\ mlOps < MaxMlOps
    /\ mlOps' = mlOps + 1
    /\ mlCount' = [mlCount EXCEPT ![c] = IF @ > 0 THEN @ - 1 ELSE @]
    /\ UNCHANGED <<now, mlOthers, mlCfg, mlQueue, mlReq>>

\* resetKey: the client's requests are filtered out of the queue
MlResetKey(c) ==
    /\ mlOps < MaxMlOps
    /\ mlOps' = mlOps + 1
    /\ mlQueue' = SelectSeq(mlQueue, LAMBDA x : x # c)
    /\ mlCount' = [mlCount EXCEPT ![c] = 0]
    /\ UNCHANGED <<now, mlOthers, mlCfg, mlReq>>

\* resetAll
MlResetAll ==
    /\ mlOps < MaxMlOps
    /\ mlOps' = mlOps + 1
    /\ mlQueue' = <<>>
    /\ mlCount' = [c \in MlClients |-> 0]
    /\ UNCHANGED <<now, mlOthers, mlCfg, mlReq>>

MlIdle ==
    /\ mlCfg = [passOnStoreError |-> FALSE]
    /\ mlQueue = <<>>
    /\ mlCount = [c \in MlClients |-> 0]
    /\ mlReq = [r \in MlReqs |-> IdleMlReq]
    /\ mlOps = 0

MlInit ==
    /\ mlCfg \in [passOnStoreError : BOOLEAN]
    /\ mlQueue = <<>>
    /\ mlCount = [c \in MlClients |-> 0]
    /\ mlReq = [r \in MlReqs |-> IdleMlReq]
    /\ mlOps = 0

MlNext ==
    \/ \E r \in MlReqs, c \in MlClients : MlCallIncrement(r, c)
    \/ \E r \in MlReqs : MlResume(r)
    \/ MlProcessRequests
    \/ \E c \in MlClients : MlDecrement(c)
    \/ \E c \in MlClients : MlResetKey(c)
    \/ MlResetAll

(***************************************************************************)
(* LeakyBucket: the queue of throttled calls released by a timer           *)
(***************************************************************************)
LkCalls == 1..NumLkCalls
NoRefill == -1
NoLkTimer == -1
\* the costs the callers pass, and the arguments of pauseByCost and pause
LkCosts == {1, LkCapacity}
LkPauseCosts == {1, LkCapacity + 1}
\* the clock moves by half the time one unit of capacity takes to refill
LkTickMs == LkInterval \div (2 * LkCapacity)
LkPauseSeconds == {LkInterval \div (1000 * LkCapacity)}
\* currentCapacity is kept multiplied by LkInterval, so that
\* elapsed * refillRate = (ms / 1000) * (capacity / (interval / 1000)) is exact
LkUnits(cost) == cost * LkInterval

UnusedLkItem == [status |-> "unused", cost |-> 0, isPause |-> FALSE, doneAt |-> 0]

\* the object as a record, for the methods that call one another
LkBucket ==
    [queue |-> lkQueue, totalCost |-> lkTotalCost,
     currentCapacity |-> lkCurrentCapacity, lastRefill |-> lkLastRefill,
     timer |-> lkTimer, resolver |-> lkResolver, item |-> lkItem,
     armedFor |-> lkArmedFor]

LkStore(b) ==
    /\ lkQueue' = b.queue
    /\ lkTotalCost' = b.totalCost
    /\ lkCurrentCapacity' = b.currentCapacity
    /\ lkLastRefill' = b.lastRefill
    /\ lkTimer' = b.timer
    /\ lkResolver' = b.resolver
    /\ lkItem' = b.item
    /\ lkArmedFor' = b.armedFor

\* refill at instant t
LkRefillKeepStamp(b, t) ==
    IF b.currentCapacity < LkUnits(LkCapacity) /\ b.lastRefill # NoRefill
    THEN LET refillAmount == (t - b.lastRefill) * LkCapacity
             cc == Min(b.currentCapacity + refillAmount, LkUnits(LkCapacity))
         IN IF cc >= LkUnits(LkCapacity)
            THEN [b EXCEPT !.currentCapacity = LkUnits(LkCapacity), !.lastRefill = NoRefill]
            ELSE [b EXCEPT !.currentCapacity = cc]
    ELSE b

LkRefill(b, t) ==
    IF b.currentCapacity < LkUnits(LkCapacity) /\ b.lastRefill # NoRefill
    THEN LET refillAmount == (t - b.lastRefill) * LkCapacity
             cc == Min(b.currentCapacity + refillAmount, LkUnits(LkCapacity))
         IN IF cc >= LkUnits(LkCapacity)
            THEN [b EXCEPT !.currentCapacity = LkUnits(LkCapacity), !.lastRefill = NoRefill]
            ELSE [b EXCEPT !.currentCapacity = cc, !.lastRefill = t]
    ELSE b

\* item.resolve(); shiftQueue(); pay(item.cost)
LkRelease(b, t) ==
    LET item == Head(b.queue)
        rest == Tail(b.queue)
    IN [b EXCEPT !.item[item.id] = [@ EXCEPT !.status = "resolved", !.doneAt = t],
                 !.queue = rest,
                 !.resolver = IF rest = <<>> THEN FALSE ELSE @,
                 !.currentCapacity = @ - LkUnits(item.cost),
                 !.totalCost = @ - item.cost,
                 !.lastRefill = IF @ = NoRefill THEN t ELSE @]

\* startTimer at instant t
RECURSIVE LkStartTimer(_, _)
LkStartTimer(b, t) ==
    IF b.timer = NoLkTimer /\ Len(b.queue) > 0
    THEN LET r == LkRefill(b, t)
             item == Head(r.queue)
         IN IF r.currentCapacity >= LkUnits(item.cost)
            THEN LkStartTimer(LkRelease(r, t), t)
            ELSE [r EXCEPT !.timer = t + (LkUnits(item.cost) - r.currentCapacity)
                                           \div LkCapacity,
                           !.armedFor = item.id]
    ELSE b

RECURSIVE LkCostOf(_)
LkCostOf(q) == IF q = <<>> THEN 0 ELSE Head(q).cost + LkCostOf(Tail(q))

\* cleanQueue: the items from the first one that makes the running cost
\* exceed the capacity are spliced off; those that are not pauses are rejected
LkCleanQueue(b, t) ==
    LET r == LkRefill(b, t)
        over == {i \in 1..Len(r.queue) : LkCostOf(SubSeq(r.queue, 1, i)) > LkCapacity}
    IN IF over = {}
       THEN r
       ELSE LET index == CHOOSE i \in over : \A j \in over : i <= j
                cut == SubSeq(r.queue, index, Len(r.queue))
                gone == {cut[i].id : i \in {j \in 1..Len(cut) : ~cut[j].isPause}}
            IN [r EXCEPT !.queue = SubSeq(r.queue, 1, index - 1),
                         !.totalCost = @ - LkCostOf(SelectSeq(cut, LAMBDA x : ~x.isPause)),
                         !.item = [i \in LkCalls |->
                                     IF i \in gone
                                     THEN [r.item[i] EXCEPT !.status = "rejected"]
                                     ELSE r.item[i]]]

\* the overflow test of throttle
LkOverflowAtCapacity(b, cost) == b.totalCost + cost >= LkCapacity
LkOverflow(b, cost) == b.totalCost + cost > LkCapacity

\* throttle(cost, append, isPause) as call number id at instant t
LkThrottled(b, id, cost, append, isPause, t) ==
    LET r == LkRefill(b, t)
        called == [status |-> "pending", cost |-> cost, isPause |-> isPause, doneAt |-> 0]
        item == [id |-> id, cost |-> cost, isPause |-> isPause]
    IN IF append /\ LkOverflow(r, cost)
       THEN [r EXCEPT !.item[id] = [called EXCEPT !.status = "overflow"]]
       ELSE LET q == [r EXCEPT !.item[id] = called,
                               !.totalCost = @ + cost,
                               !.queue = IF append THEN Append(@, item) ELSE <<item>> \o @]
            IN LkStartTimer(IF append THEN q ELSE LkCleanQueue(q, t), t)

LkStopped(b) == [b EXCEPT !.timer = NoLkTimer]
LkCleared(b) == [b EXCEPT !.queue = <<>>, !.totalCost = 0]
LkDrained(b, t) == [b EXCEPT !.currentCapacity = 0, !.lastRefill = t]

\* calls are numbered in call order
LkNextCall(id) ==
    /\ lkItem[id].status = "unused"
    /\ \A j \in LkCalls : j < id => lkItem[j].status # "unused"

LkOp ==
    /\ lkOps < MaxLkOps
    /\ lkOps' = lkOps + 1

\* a caller calls throttle(cost)
LkThrottle(id, cost) ==
    /\ LkNextCall(id)
    /\ LkStore(LkThrottled(LkBucket, id, cost, TRUE, FALSE, now))
    /\ UNCHANGED <<now, lkOthers, lkResched, lkOps, lkTicks>>

\* the pending timeout fires, at its due instant or later
LkTimerFire ==
    /\ lkTimer # NoLkTimer
    /\ now' = Max(now, lkTimer)
    /\ LkStore(LkStartTimer(LkStopped(LkBucket), now'))
    /\ lkResched' = (lkResched \/
          (/\ lkQueue # <<>>
           /\ Head(lkQueue).id = lkArmedFor
           /\ LkRefill(LkBucket, now').currentCapacity < LkUnits(Head(lkQueue).cost)))
    /\ UNCHANGED <<lkOthers, lkOps, lkTicks>>

\* pauseByCost(cost)
LkPauseByCost(id, cost) ==
    /\ LkNextCall(id)
    /\ LkOp
    /\ LkStore(LkThrottled(LkStopped(LkBucket), id, cost, FALSE, TRUE, now))
    /\ UNCHANGED <<now, lkOthers, lkResched, lkTicks>>

\* pause(seconds)
LkPause(id, seconds) ==
    /\ LkNextCall(id)
    /\ LkOp
    /\ LkStore(LkThrottled(LkStopped(LkDrained(LkBucket, now)), id,
                           (seconds * 1000 * LkCapacity) \div LkInterval, FALSE, TRUE, now))
    /\ UNCHANGED <<now, lkOthers, lkResched, lkTicks>>

LkStopTimer ==
    /\ LkOp
    /\ LkStore(LkStopped(LkBucket))
    /\ UNCHANGED <<now, lkOthers, lkResched, lkTicks>>

LkClear ==
    /\ LkOp
    /\ LkStore(LkCleared(LkBucket))
    /\ UNCHANGED <<now, lkOthers, lkResched, lkTicks>>

LkEnd ==
    /\ LkOp
    /\ LkStore(LkCleared(LkStopped(LkBucket)))
    /\ UNCHANGED <<now, lkOthers, lkResched, lkTicks>>

\* isEmpty(): a new promise unless one is pending
LkIsEmpty ==
    /\ lkResolver' = TRUE
    /\ UNCHANGED <<now, lkOthers, lkQueue, lkTotalCost, lkCurrentCapacity, lkLastRefill,
                   lkTimer, lkItem, lkArmedFor, lkResched, lkOps, lkTicks>>

LkTick ==
    /\ lkTicks < MaxLkTicks
    /\ lkTicks' = lkTicks + 1
    /\ now' = now + LkTickMs
    /\ UNCHANGED <<lkOthers, lkQueue, lkTotalCost, lkCurrentCapacity, lkLastRefill,
                   lkTimer, lkResolver, lkItem, lkArmedFor, lkResched, lkOps>>

LkIdle ==
    /\ lkQueue = <<>>
    /\ lkTotalCost = 0
    /\ lkCurrentCapacity = LkUnits(LkCapacity)
    /\ lkLastRefill = NoRefill
    /\ lkTimer = NoLkTimer
    /\ lkResolver = FALSE
    /\ lkItem = [i \in LkCalls |-> UnusedLkItem]
    /\ lkArmedFor = 0
    /\ lkResched = FALSE
    /\ lkOps = 0
    /\ lkTicks = 0

LkNext ==
    \/ \E id \in LkCalls, cost \in LkCosts : LkThrottle(id, cost)
    \/ LkTimerFire
    \/ \E id \in LkCalls, cost \in LkPauseCosts : LkPauseByCost(id, cost)
    \/ \E id \in LkCalls, seconds \in LkPauseSeconds : LkPause(id, seconds)
    \/ LkStopTimer
    \/ LkClear
    \/ LkEnd
    \/ LkIsEmpty
    \/ LkTick

(***************************************************************************)
(* Two Redis stores of the same kind (two limiters) and the application    *)
(* on one Redis backend: which keys resetAll of the first store deletes    *)
(***************************************************************************)
\* the client keys of the first and of the second limiter, and a key of the
\* application
KsKeys ==
    {[prefix |-> p, name |-> n] : p \in {"", "rl:", "b:"}, n \in {"ip1", "ip2"}}
        \cup {[prefix |-> "app:", name |-> "session"]}
NoScan == {[prefix |-> "", name |-> "none"]}

\* FixedWindowRedisStore.prefixKey; RedisTokenBucketStore passes the key as it is
KsPrefixKey(store, name) ==
    [prefix |-> IF ksCfg.kind = "tokenBucket" THEN ""
                ELSE IF store = "A" THEN "rl:" ELSE ksCfg.prefixB,
     name |-> name]

\* KEYS '*' (token bucket) and KEYS prefix + '*' (fixed window)
KsMatches(k) == ksCfg.kind = "tokenBucket" \/ k.prefix = "rl:"

\* increment of a store writes its client's key
KsIncrement(store, name) ==
    /\ ksDb[KsPrefixKey(store, name)] \in {"none", store}
    /\ ksDb' = [ksDb EXCEPT ![KsPrefixKey(store, name)] = store]
    /\ UNCHANGED <<now, ksOthers, ksCfg, ksScan>>

\* the application writes or deletes its own key
KsAppWrite(present) ==
    /\ ksDb' = [ksDb EXCEPT ![[prefix |-> "app:", name |-> "session"]] =
                  IF present THEN "app" ELSE "none"]
    /\ UNCHANGED <<now, ksOthers, ksCfg, ksScan>>

\* resetAll of the first store: `await client.keys(pattern)`
KsResetAllKeys ==
    /\ ksScan = NoScan
    /\ ksScan' = {k \in KsKeys : ksDb[k] # "none" /\ KsMatches(k)}
    /\ UNCHANGED <<now, ksOthers, ksCfg, ksDb>>

\* resetAll of the first store: `if (keys.length > 0) await client.del(...keys)`
KsResetAllDel ==
    /\ ksScan # NoScan
    /\ ksDb' = [k \in KsKeys |-> IF k \in ksScan THEN "none" ELSE ksDb[k]]
    /\ ksScan' = NoScan
    /\ UNCHANGED <<now, ksOthers, ksCfg>>

KsIdle ==
    /\ ksCfg = [kind |-> "fixedWindow", prefixB |-> "rl:"]
    /\ ksDb = [k \in KsKeys |-> "none"]
    /\ ksScan = NoScan

KsInit ==
    /\ ksCfg \in [kind : {"fixedWindow", "tokenBucket"}, prefixB : {"rl:", "b:"}]
    /\ ksDb = [k \in KsKeys |-> "none"]
    /\ ksScan = NoScan

KsNext ==
    \/ \E name \in {"ip1"} : KsIncrement("A", name)
    \/ \E name \in {"ip2"} : KsIncrement("B", name)
    \/ \E present \in BOOLEAN : KsAppWrite(present)
    \/ KsResetAllKeys
    \/ KsResetAllDel

(***************************************************************************)
(* MemoryFixedWindowStore: init, shutdown and the sweep timers they arm    *)
(***************************************************************************)
TmKeys == {"ip1", "ip2"}

\* clearInterval(handle)
TmClearInterval(timers, handle) == {t \in timers : t.id # handle}

\* the active timers after init() at instant t: the previous interval is
\* cleared and a new one, with handle id, is armed
TmInitTimersKeepOld(timers, handle, id, t) ==
    timers \cup {[id |-> id, due |-> t + WindowMs]}
TmInitTimers(timers, handle, id, t) ==
    TmClearInterval(timers, handle) \cup {[id |-> id, due |-> t + WindowMs]}

\* init(options)
TmInitCall ==
    /\ tmOps < MaxTmOps
    /\ tmOps' = tmOps + 1
    /\ tmTimers' = TmInitTimers(tmTimers, tmInterval, tmOps + 1, now)
    /\ tmInterval' = tmOps + 1
    /\ tmLast' = "init"
    /\ UNCHANGED <<now, tmOthers, tmClients>>

\* shutdown(): clearInterval(this.interval) and resetAll()
TmShutdown ==
    /\ tmOps < MaxTmOps
    /\ tmOps' = tmOps + 1
    /\ tmTimers' = IF tmInterval # 0 THEN TmClearInterval(tmTimers, tmInterval)
                   ELSE tmTimers
    /\ tmClients' = {}
    /\ tmLast' = "shutdown"
    /\ UNCHANGED <<now, tmOthers, tmInterval>>

\* increment(key) puts the key in the client map
TmIncrement(key) ==
    /\ tmClients' = tmClients \cup {key}
    /\ tmLast' = "increment"
    /\ UNCHANGED <<now, tmOthers, tmTimers, tmInterval, tmOps>>

\* an active interval timer fires: resetAll(), and it is due again a window later
TmFire(t) ==
    /\ t \in tmTimers
    /\ now >= t.due
    /\ tmTimers' = (tmTimers \ {t}) \cup {[t EXCEPT !.due = @ + WindowMs]}
    /\ tmClients' = {}
    /\ UNCHANGED <<now, tmOthers, tmInterval, tmOps, tmLast>>

\* a millisecond passes; due timers fire first
TmTick ==
    /\ now < MaxTmTime
    /\ \A t \in tmTimers : now < t.due
    /\ now' = now + 1
    /\ UNCHANGED <<tmOthers, tmVars>>

\* the store as constructed: init() has not been called
TmIdle ==
    /\ tmTimers = {}
    /\ tmInterval = 0
    /\ tmClients = {}
    /\ tmOps = 0
    /\ tmLast = "none"

TmNext ==
    \/ TmInitCall
    \/ TmShutdown
    \/ \E key \in TmKeys : TmIncrement(key)
    \/ \E t \in tmTimers : TmFire(t)
    \/ TmTick

(***************************************************************************)
(* Two runs of CONSUME_TOKEN on one key at the same instants: in the first *)
(* the key expires by its TTL, in the second it is kept forever            *)
(***************************************************************************)
\* the reply of CONSUME_TOKEN on hash h: canConsume and newTokens
XpReply(h) ==
    [canConsume |-> TbScriptRefilled(h) > 0, tokens |-> TbConsumeToken(h).tokens]

\* the hash in the run without expiry
XpKept(h) == [h EXCEPT !.expireAt = -1]

\* CONSUME_TOKEN is run on the key in both runs
XpConsume ==
    /\ xpA' = TbConsumeToken(xpA)
    /\ xpB' = XpKept(TbConsumeToken(xpB))
    /\ xpRet' = [a |-> XpReply(xpA), b |-> XpReply(xpB)]
    /\ xpExpired' = (xpExpired \/ (xpA.exists /\ ~TbHashLive(xpA)))
    /\ UNCHANGED <<now, xpOthers>>

XpTick ==
    /\ now < MaxXpTicks * TickMs
    /\ now' = now + TickMs
    /\ UNCHANGED <<xpOthers, xpVars>>

XpIdle ==
    /\ xpA = NoHash
    /\ xpB = NoHash
    /\ xpRet = [a |-> [canConsume |-> FALSE, tokens |-> 0],
                b |-> [canConsume |-> FALSE, tokens |-> 0]]
    /\ xpExpired = FALSE

XpNext ==
    \/ XpConsume
    \/ XpTick

(***************************************************************************)
(* Specifications: one limiter is exercised at a time                      *)
(***************************************************************************)
\* the components after the limiters stay as constructed
RestIdle == GpIdle /\ EpIdle /\ MlIdle /\ LkIdle /\ KsIdle /\ TmIdle /\ XpIdle
CoreIdle == FwIdle /\ TbIdle /\ PgIdle /\ LbIdle /\ DfIdle

InitFW == FwInit /\ TbIdle /\ PgIdle /\ LbIdle /\ DfIdle /\ RestIdle
SpecFW == InitFW /\ [][FwNext]_vars

InitTB == TbInit /\ FwIdle /\ PgIdle /\ LbIdle /\ DfIdle /\ RestIdle
SpecTB == InitTB /\ [][TbNext]_vars
SpecTBSkew == InitTB /\ [][TbSkewNext]_vars

InitPG == PgInit /\ FwIdle /\ TbIdle /\ LbIdle /\ DfIdle /\ RestIdle
SpecPG == InitPG /\ [][PgNext]_vars

\* the relational stores on a database whose tables have just been created
InitPGFresh == InitPG /\ pgRow = NoRow
SpecPGFresh == InitPGFresh /\ [][PgNext]_vars

InitLB == LbInit /\ FwIdle /\ TbIdle /\ PgIdle /\ DfIdle /\ RestIdle
SpecLB == InitLB /\ [][LbNext]_vars

InitDeferred == DfInit /\ FwIdle /\ TbIdle /\ PgIdle /\ LbIdle /\ RestIdle
SpecDeferred == InitDeferred /\ [][DfNext]_vars

InitGetPair == now = 0 /\ CoreIdle /\ GpIdle /\ EpIdle /\ MlIdle /\ LkIdle /\ KsIdle /\ TmIdle /\ XpIdle
SpecGetPair == InitGetPair /\ [][GpNext]_vars

InitStoreError == now = 0 /\ CoreIdle /\ GpIdle /\ EpInit /\ MlIdle /\ LkIdle /\ KsIdle /\ TmIdle /\ XpIdle
SpecStoreError == InitStoreError /\ [][EpNext]_vars

InitMemoryLeaky == now = 0 /\ CoreIdle /\ GpIdle /\ EpIdle /\ MlInit /\ LkIdle /\ KsIdle /\ TmIdle /\ XpIdle
SpecMemoryLeaky == InitMemoryLeaky /\ [][MlNext]_vars

InitLeakyBucket == now = 0 /\ CoreIdle /\ GpIdle /\ EpIdle /\ MlIdle /\ LkIdle /\ KsIdle /\ TmIdle /\ XpIdle
SpecLeakyBucket == InitLeakyBucket /\ [][LkNext]_vars
InitKeyspace == now = 0 /\ CoreIdle /\ GpIdle /\ EpIdle /\ MlIdle /\ LkIdle /\ KsInit /\ TmIdle /\ XpIdle
SpecKeyspace == InitKeyspace /\ [][KsNext]_vars

InitTimers == now = 0 /\ CoreIdle /\ GpIdle /\ EpIdle /\ MlIdle /\ LkIdle /\ KsIdle /\ TmIdle /\ XpIdle
SpecTimers == InitTimers /\ [][TmNext]_vars

InitExpiry == now = 0 /\ CoreIdle /\ GpIdle /\ EpIdle /\ MlIdle /\ LkIdle /\ KsIdle /\ TmIdle /\ XpIdle
SpecExpiry == InitExpiry /\ [][XpNext]_vars

\* pending timers eventually fire
SpecLeakyBucketFair == InitLeakyBucket /\ [][LkNext]_vars /\ WF_vars(LkTimerFire)

(***************************************************************************)
(* Claims on the fixed window                                              *)
(***************************************************************************)
\* C1: over MemoryFixedWindowStore with no user call of decrement/resetKey/
\* resetAll, the n-th request of an aligned window is admitted iff n <= limit
\* (stated for requests that did not overlap another request).
C1_NthAdmittedIffWithinLimit ==
    \A r \in Reqs :
        (fwBackend = "memory" /\ fwOps = 0 /\ fwReq[r].pc = "done" /\ fwReq[r].alone)
            => (fwReq[r].admitted <=> fwReq[r].ord <= Limit)

\* C8: the stored fixed-window count is never negative, on any backend
\* (memory, Redis, and the committed or buffered row of PostgreSQL).
C8_CountNeverNegative ==
    /\ fwClient # 0 => fwHeap[fwClient].totalHits >= 0
    /\ fwRedis.exists => fwRedis.val >= 0
    /\ pgKind = "fw" =>
          /\ pgRow.level >= 0
          /\ \A c \in Conns : pgConn[c].pending.row.level >= 0

\* C4: concurrent increments on one record of MemoryFixedWindowStore return
\* pairwise different counts, all within 1..N; and MemoryTokenBucketStore,
\* with no refill due, has let exactly min(N, capacity) calls take a token.
C4_ConcurrentIncrementsCounted ==
    /\ (fwBackend = "memory" /\ fwOps = 0) =>
          \A r, q \in Reqs :
             (r # q /\ fwReq[r].pc = "done" /\ fwReq[q].pc = "done"
                    /\ fwReq[r].gen = fwReq[q].gen)
                => fwReq[r].used # fwReq[q].used
    /\ (tbBackend = "memory" /\ tbOps = 0 /\ TbCalled # {}
           /\ \A r \in TbCalled : tbReq[r].at < tbReq[1].at + 1000)
          => tbMem.tokens = MaxTokens - Min(Cardinality(TbCalled), MaxTokens)

(***************************************************************************)
(* Claims on the token bucket                                              *)
(***************************************************************************)
TbSameInstant(i, j, t) == \A n \in i..j : tbReq[n].at = t

\* C2: on a fresh key the first MaxTokens requests issued at one instant are
\* admitted and the next is rejected; of the requests issued exactly one
\* second later, the first is admitted and the following ones are rejected.
C2_BurstThenOnePerSecond ==
    \A n \in TbReqs :
        (tbBackend = "memory" /\ tbOps = 0 /\ tbReq[n].pc = "done") =>
            /\ TbSameInstant(1, n, tbReq[1].at)
                  => (tbReq[n].admitted <=> n <= MaxTokens)
            /\ (n >= MaxTokens + 2
                  /\ TbSameInstant(1, MaxTokens + 1, tbReq[1].at)
                  /\ TbSameInstant(MaxTokens + 2, n, tbReq[1].at + 1000))
                  => (tbReq[n].admitted <=> n = MaxTokens + 2)

\* C7: the stored tokens of a key stay within 0..capacity, in the memory
\* store and under the Redis scripts, whatever operations and clock advances.
C7_TokensWithinBounds ==
    /\ tbMem.exists => (0 <= tbMem.tokens /\ tbMem.tokens <= MaxTokens)
    /\ tbRedis.exists => (0 <= tbRedis.tokens /\ tbRedis.tokens <= MaxTokens)

\* C7 witness: a second user operation, a decrement, ran on a key that has
\* been consumed from and left the bucket at its ceiling.
C7_Witness ==
    /\ tbLast \in {"decrement", "increment;decrement"}
    /\ tbOps >= 2
    /\ TbCalled # {}
    /\ TbExists
    /\ TbStored = MaxTokens

\* what get and increment return on a key that was never used
TbFreshGet ==
    IF tbBackend = "memory" THEN TbMemGetResult(NoClient) ELSE TbRedisGetResult(NoHash)
TbFreshInc ==
    IF tbBackend = "memory" THEN TbMemInc(NoClient).tokens ELSE TbConsumeToken(NoHash).tokens

\* C11: a get made right after resetKey returns what get returns on a key
\* that was never used, on MemoryTokenBucketStore, RedisTokenBucketStore and
\* MemoryFixedWindowStore, and an increment made right after resetKey returns
\* what the first increment of a new key returns.
C11_ResetThenGetIsFresh ==
    /\ (tbObs.seq = "resetKey;get" /\ tbObs.at = now) =>
          /\ tbObs.def = TbFreshGet.def
          /\ tbObs.def => /\ tbObs.totalHits = TbFreshGet.totalHits
                          /\ tbObs.resetTime = TbFreshGet.resetTime
    /\ (tbObs.seq = "resetKey;increment" /\ tbObs.at = now) =>
          tbObs.totalHits = TbFreshInc
    /\ fwObs.seq = "resetKey;get" => ~fwObs.def

\* C12: get returns the state with the arithmetic pending at `now` applied:
\* MemoryFixedWindowStore.get returns no counted record whose window is over,
\* and the token-bucket get returns the tokens accrued since lastRefillTime.
C12_GetNeverStale ==
    /\ (fwObs.seq \in {"get", "resetKey;get"} /\ fwObs.at = now /\ fwObs.def
            /\ fwObs.totalHits > 0) => fwObs.resetTime > now
    /\ (tbObs.seq \in {"get", "resetKey;get"} /\ tbObs.at = now /\ tbObs.def) =>
          tbObs.totalHits = TbRefilled

(***************************************************************************)
(* Claims on the relational stores                                         *)
(***************************************************************************)
PgQuiet == \A k \in PgCalls : ~PgInProgress(k)
PgOkIncrements == {i \in 1..Len(pgLog) : pgLog[i].op = "increment" /\ pgLog[i].ok}
PgOnly(ops) == \A i \in 1..Len(pgLog) : pgLog[i].ok /\ pgLog[i].op \in ops

\* C3: concurrent PostgresFixedWindowStore.increment calls on an existing key,
\* inside its window: no two calls return the same count, and once all have
\* returned total_hits has grown by the number of calls.
C3_NoLostUpdate ==
    (pgKind = "fw" /\ pgRow0.exists /\ now < pgRow0.stamp /\ PgOnly({"increment"})
        /\ \A k \in PgCalls : pgCall[k].op # "decrement") =>
        /\ \A i, j \in PgOkIncrements : i # j => pgLog[i].ret # pgLog[j].ret
        /\ PgQuiet => pgRow.level = pgRow0.level + Cardinality(PgOkIncrements)

\* C9: an increment that finds t > 0 tokens after the refill returns t - 1,
\* and K <= capacity increments on a fresh key with no refill due leave
\* capacity - K tokens stored, on the memory, Redis and PostgreSQL stores.
C9_IncrementConsumes ==
    /\ \A r \in TbReqs :
          (tbReq[r].pc # "idle" /\ tbReq[r].pre > 0) => tbReq[r].ret = tbReq[r].pre - 1
    /\ (pgKind = "tb" /\ ~pgRow0.exists /\ now = 0 /\ ~pgOverlap /\ PgQuiet
           /\ pgLog # <<>> /\ PgOnly({"increment"}) /\ Len(pgLog) <= MaxTokens) =>
          /\ pgRow.exists
          /\ pgRow.level = MaxTokens - Len(pgLog)
          /\ \A i \in 1..Len(pgLog) : pgLog[i].ret = MaxTokens - i

\* C10: with no time elapsed, increment followed by decrement leaves the
\* stored level where it was before the increment, on every backend and
\* from every starting level.
C10_DecrementReversesIncrement ==
    /\ tbLast = "increment;decrement" => TbStored = tbPrev
    /\ (pgKind \in {"tb", "lb"} /\ pgRow0.exists /\ now = 0 /\ ~pgOverlap /\ PgQuiet
           /\ Len(pgLog) = 2 /\ PgOnly({"increment", "decrement"})
           /\ pgLog[1].op = "increment" /\ pgLog[2].op = "decrement") =>
          pgRow.level = pgRow0.level

(***************************************************************************)
(* Claims on the leakyBucket middleware and on the deferred reversal       *)
(***************************************************************************)
LbAdmitted == {r \in LbReqs : lbReq[r].admitted \/ lbReq[r].pc = "awaitSet"}

\* C5: with no leak elapsed, concurrent requests on one key admit at most
\* `limit` requests and the stored level equals the number admitted.
C5_AdmissionsWithinCapacity ==
    now = 1 =>
        /\ Cardinality(LbAdmitted) <= Limit
        /\ LbUsed(lbStore) = Cardinality(LbAdmitted)

\* C6: store.decrement(key) is invoked at most once for one request, whatever
\* 'finish', 'close' and 'error' signals arrive and however they interleave.
C6_DecrementAtMostOnce == dfDecCalls <= 1

(***************************************************************************)
(* Claims on paired runs                                                   *)
(***************************************************************************)
\* C13: inserting get(key) calls into a run of increment/decrement calls on
\* MemoryTokenBucketStore changes no increment's returned value and no
\* admission.
C13_GetDoesNotChangeAdmission ==
    /\ gpRetA = gpRetB
    /\ TbAdmit(gpRetA) <=> TbAdmit(gpRetB)

(***************************************************************************)
(* Claims on the store-error path                                          *)
(***************************************************************************)
\* C14: a request whose store.increment threw gets exactly one outcome: under
\* passOnStoreError one next() and nothing else, otherwise one next(error)
\* and nothing else; the rate-limit info is never attached to it.
C14_StoreErrorPolicyOnce ==
    \A r \in EpReqs :
        epReq[r].threw =>
            /\ epReq[r].nextPlain + epReq[r].nextError + epReq[r].handled <= 1
            /\ ~epReq[r].info
            /\ epReq[r].pc = "done" =>
                  /\ epReq[r].handled = 0
                  /\ epReq[r].nextPlain = (IF epCfg.passOnStoreError THEN 1 ELSE 0)
                  /\ epReq[r].nextError = (IF epCfg.passOnStoreError THEN 0 ELSE 1)

\* C14 witness: with passOnStoreError set, one request was let through after
\* its store call threw while another was decided normally.
C14_Witness ==
    /\ epCfg.passOnStoreError
    /\ \E r, q \in EpReqs :
          /\ epReq[r].pc = "done" /\ epReq[r].threw /\ epReq[r].nextPlain = 1
          /\ epReq[q].pc = "done" /\ epReq[q].info

(***************************************************************************)
(* Claims on MemoryLeakyBucketStore behind a middleware                    *)
(***************************************************************************)
\* C15: under passOnStoreError, a request that arrives when its client's
\* queued count equals clientMaxRequests, or the global queue length equals
\* globalLimit, is rejected through the handler and never admitted.
C15_ExhaustionIsADecision ==
    \A r \in MlReqs :
        (mlCfg.passOnStoreError /\ mlReq[r].pc = "done" /\ mlReq[r].atCapacity) =>
            mlReq[r].outcome = "handler"

(***************************************************************************)
(* Claims on the LeakyBucket queue                                         *)
(***************************************************************************)
\* the sum of f over the calls in S
RECURSIVE LkSum(_, _)
LkSum(f, S) ==
    IF S = {} THEN 0
    ELSE LET i == CHOOSE j \in S : TRUE IN f[i] + LkSum(f, S \ {i})

LkItemCost == [i \in LkCalls |-> lkItem[i].cost]

\* a fresh bucket has received capacity + 1 unit-cost throttle calls in the
\* same instant and nothing else
LkUnitBurst ==
    /\ now = 0
    /\ lkOps = 0
    /\ \A i \in 1..(LkCapacity + 1) :
         lkItem[i].status # "unused" /\ lkItem[i].cost = 1 /\ ~lkItem[i].isPause

\* C16 (as stated): on a fresh bucket the last of capacity + 1 synchronous
\* unit-cost throttle calls is rejected with 'Bucket overflow'.
C16_LastOfBurstRejected ==
    LkUnitBurst => lkItem[LkCapacity + 1].status = "overflow"

\* the items released (resolved) by the step
LkReleasedNow ==
    {i \in LkCalls : lkItem[i].status # "resolved" /\ lkItem'[i].status = "resolved"}

LkBurstQueuesLast ==
    LkUnitBurst =>
        /\ \A i \in 1..LkCapacity : lkItem[i].status = "resolved"
        /\ lkItem[LkCapacity + 1].status = "pending"
        /\ lkTimer # NoLkTimer

\* C16 (amended): throttle(cost) with append = true is refused with 'Bucket
\* overflow' exactly when totalCost + cost > capacity at the call, leaving the
\* queue, totalCost and the timer unchanged; otherwise the item joins the tail
\* and totalCost grows by cost less the cost of the items released within the
\* call.  Released items no longer count, so on a fresh bucket the first
\* capacity unit-cost calls of a synchronous burst resolve at once and the next
\* one is queued behind a timer, not refused.
C16_OverflowIffQueuedCostExceeds ==
    [][\A id \in LkCalls :
          (lkItem[id].status = "unused" /\ lkItem'[id].status # "unused"
             /\ ~lkItem'[id].isPause) =>
            /\ IF lkTotalCost + lkItem'[id].cost > LkCapacity
               THEN /\ lkItem'[id].status = "overflow"
                    /\ UNCHANGED <<lkQueue, lkTotalCost, lkTimer>>
               ELSE /\ lkItem'[id].status \in {"pending", "resolved"}
                    /\ lkItem'[id].status = "pending" =>
                         (lkQueue' # <<>> /\ lkQueue'[Len(lkQueue')].id = id)
                    /\ lkTotalCost' = lkTotalCost + lkItem'[id].cost
                                        - LkSum(LkItemCost', LkReleasedNow)
            /\ LkBurstQueuesLast']_vars

C16_Witness ==
    LkUnitBurst /\ lkItem[LkCapacity + 1].status = "pending"

\* C17: an operation that takes the queue from non-empty to empty while a
\* promise of isEmpty() is pending resolves that promise.
C17_DrainResolvesEmptyPromise ==
    [][(lkResolver /\ lkQueue # <<>> /\ lkQueue' = <<>>) => ~lkResolver']_vars

\* C18: every promise a caller got from throttle() is eventually resolved or
\* rejected, provided pending timers fire.
C18_ThrottleEventuallySettles ==
    \A i \in LkCalls :
        (lkItem[i].status = "pending" /\ ~lkItem[i].isPause)
            ~> (lkItem[i].status \in {"resolved", "rejected"})

\* C19: between method calls the bucket is either Idle (no timer, empty
\* queue) or Scheduled (a timer pending, non-empty queue).
C19_IdleOrScheduled ==
    (lkTimer = NoLkTimer) <=> (lkQueue = <<>>)

LkResolvedIn(a, b) ==
    {i \in LkCalls : lkItem[i].status = "resolved"
                       /\ lkItem[i].doneAt >= a /\ lkItem[i].doneAt <= b}

TbStamp == IF tbBackend = "memory" THEN tbMem.lastRefillTime ELSE tbRedis.lastRefillTime

\* the step is a store.increment or a store.get on the observed key
TbIncOrGetStep ==
    \/ \E r \in TbReqs : tbReq[r].pc = "idle" /\ tbReq'[r].pc = "awaitInc"
    \/ tbOps' # tbOps /\ tbLast' = "get"

\* C21: an increment or get on a stored record whose floored refill is 0
\* leaves the stored lastRefillTime unchanged.
C21_StampOnlyOnRefill ==
    [][(TbIncOrGetStep /\ TbExists /\ TbStamp # -1 /\ TokensToAdd(now - TbStamp) = 0)
         => TbStamp' = TbStamp]_vars

\* C22: the stored lastRefillTime of a key never moves backwards.
C22_StampNeverDecreases ==
    [][(TbExists /\ TbExists' /\ TbStamp # -1 /\ TbStamp' # -1) => TbStamp' >= TbStamp]_vars

\* C23: every key that exists in the Redis backend has a TTL set.
C23_EveryKeyHasExpiry ==
    /\ (tbBackend = "redis" /\ TbHashLive(tbRedis)) => tbRedis.expireAt # -1
    /\ (fwBackend = "redis" /\ RedisLive(fwRedis)) => fwRedis.expireAt # -1

(***************************************************************************)
(* Claims on the Redis keyspace                                            *)
(***************************************************************************)
\* C24: resetAll of a store leaves every key it did not write unchanged.
C24_ResetAllKeepsForeignKeys ==
    [][(ksScan # NoScan /\ ksScan' = NoScan) =>
          \A k \in KsKeys : ksDb[k] \in {"B", "app"} => ksDb'[k] = ksDb[k]]_vars

(***************************************************************************)
(* Claims on the first increment of a key and on transaction conflicts     *)
(***************************************************************************)
\* only increment calls were made, on a key that had no row, through a pool
\* with a connection for every call
PgFirstSeen ==
    /\ pgMax >= NumPgCalls
    /\ ~pgRow0.exists
    /\ \A k \in PgCalls : pgCall[k].op # "decrement"
    /\ \A i \in 1..Len(pgLog) : pgLog[i].op = "increment"

\* C25: increment calls that run concurrently on a key with no row all
\* succeed, leave one row, and (fixed window) return the distinct counts 1..N.
C25_FirstSeenKeyAllSucceed ==
    (PgFirstSeen /\ PgQuiet /\ pgLog # <<>>) =>
        /\ \A i \in 1..Len(pgLog) : pgLog[i].ok
        /\ pgRow.exists
        /\ pgKind = "fw" => {pgLog[i].ret : i \in 1..Len(pgLog)} = 1..Len(pgLog)

\* C26: a transaction conflict inside increment (here: a duplicate key) is
\* rolled back and retried by the store; the caller gets a result, never the
\* error.
C26_ConflictsRetried ==
    pgMax >= NumPgCalls =>
        \A i \in 1..Len(pgLog) : pgLog[i].op = "increment" => pgLog[i].ok

(***************************************************************************)
(* Claims on the window boundaries and the rejection report                *)
(***************************************************************************)
\* C27: the resetTime written when a window is opened at time t is
\* floor(t / windowMs) * windowMs + windowMs, on MemoryFixedWindowStore and on
\* PostgresFixedWindowStore: stored boundaries are multiples of windowMs.
C27_WindowsAligned ==
    /\ fwClient # 0 => fwHeap[fwClient].resetTime = FwWindowStart(fwHeap[fwClient].resetTime)
    /\ (pgKind = "fw" /\ pgRow.exists) => pgRow.stamp = FwWindowStart(pgRow.stamp)

\* C28: over MemoryFixedWindowStore a request that arrives at a time now >=
\* the key's stored resetTime is counted as hit 1 and admitted (limit >= 1),
\* and every rejected request reports remaining = 0.
C28_RolloverCountsOne ==
    \A r \in Reqs :
        (fwBackend = "memory" /\ fwReq[r].pc = "done") =>
            /\ fwReq[r].rolled => (fwReq[r].used = 1 /\ fwReq[r].admitted)
            /\ ~fwReq[r].admitted => fwReq[r].remaining = 0

(***************************************************************************)
(* Claims on the order and the trimming of the LeakyBucket queue           *)
(***************************************************************************)
\* the calls of throttle(cost) that were enqueued (append = true)
LkAppended == {i \in LkCalls : lkItem[i].status \in {"pending", "resolved", "rejected"}
                                  /\ ~lkItem[i].isPause}

\* C29: the queue is FIFO: no item enqueued by throttle(cost) is resolved while
\* an item enqueued by an earlier throttle(cost) is still pending, also when
\* pause items have been inserted at the head.
C29_QueueIsFifo ==
    \A i, j \in LkAppended :
        (i < j /\ lkItem[j].status = "resolved") => lkItem[i].status # "pending"

\* the queue right after a pause item of call p has been put at its head
LkWithPause(p) == <<[id |-> p, cost |-> lkItem'[p].cost, isPause |-> TRUE]>> \o lkQueue

\* the length of the longest prefix of q whose cumulative cost is <= capacity
LkKeep(q) ==
    CHOOSE n \in 0..Len(q) :
        /\ LkCostOf(SubSeq(q, 1, n)) <= LkCapacity
        /\ n = Len(q) \/ LkCostOf(SubSeq(q, 1, n + 1)) > LkCapacity

\* C30: when pauseByCost or pause puts a pause item at the head, cleanQueue
\* keeps the longest prefix whose cumulative cost is <= capacity, in order
\* (its head items may be released by the startTimer that follows), and every
\* item it removes is rejected: none is dropped unsettled.
C30_TrimRejectsTail ==
    [][\A p \in LkCalls :
          (lkItem[p].status = "unused" /\ lkItem'[p].isPause) =>
             LET q == LkWithPause(p)
                 keep == LkKeep(q)
                 n == Len(lkQueue')
             IN /\ n <= keep
                /\ lkQueue' = SubSeq(q, keep - n + 1, keep)
                /\ \A k \in 1..(keep - n) : lkItem'[q[k].id].status = "resolved"
                /\ \A k \in (keep + 1)..Len(q) : lkItem'[q[k].id].status = "rejected"]_vars

(***************************************************************************)
(* Claims of the last group                                                *)
(***************************************************************************)
\* request r decides alone: no other request is between its read and its
\* write, and nothing was stored since r read the bucket
LbSequential(r) ==
    /\ lbReq[r].info = lbStore
    /\ \A q \in LbReqs \ {r} : lbReq[q].pc \in {"idle", "done"}

\* C31: when the leakyBucket middleware decides a request that overlaps no
\* other one, it admits and stores the leaked level plus exactly 1 only if
\* that raised level is <= capacity; otherwise it rejects and the stored
\* level and lastUpdated stay exactly as they were.
C31_RejectLeavesStore ==
    [][\A r \in LbReqs :
          (lbReq[r].pc = "awaitGet" /\ lbReq'[r].pc # "awaitGet" /\ LbSequential(r)) =>
             IF lbReq'[r].pc = "awaitSet"
             THEN /\ lbStore'.used = LbLeaked(lbStore) + 1
                  /\ lbStore'.used <= Limit
                  /\ lbStore'.lastUpdated = now
             ELSE /\ lbReq'[r].pc = "done" /\ ~lbReq'[r].admitted
                  /\ LbLeaked(lbStore) + 1 > Limit
                  /\ lbStore' = lbStore]_vars

\* a request was rejected on a full bucket after the others were admitted
C31_Witness ==
    /\ lbStore.used = Limit
    /\ \E r \in LbReqs :
          /\ lbReq[r].pc = "done" /\ ~lbReq[r].admitted
          /\ \A q \in LbReqs \ {r} : lbReq[q].pc = "done" /\ lbReq[q].admitted

\* the statement call k has in flight gets an error reply: the session is in
\* an aborted transaction, or the INSERT meets an existing row
PgStmtFails(k) ==
    LET c == pgCall[k].conn
    IN \/ pgConn[c].state = "aborted"
       \/ /\ pgCall[k].pc = "WRITE"
          /\ Head(pgCall[k].todo).ins
          /\ PgVisible(c).exists

\* the reply to the statement of call k arrives in this step
PgReplied(k) ==
    /\ PgInProgress(k)
    /\ pgCall'[k].pc # pgCall[k].pc \/ pgCall'[k].todo # pgCall[k].todo

\* C32: in every transactional increment/decrement of the three relational
\* stores COMMIT is issued only after every write of the call has returned
\* without error; a statement after BEGIN that fails is followed by ROLLBACK
\* and the call throws; and the call returns only after COMMIT or ROLLBACK.
C32_CommitAfterWritesElseRollback ==
    [][\A k \in PgCalls :
          (PgReplied(k) /\ pgCall[k].pc # "UPDATE1") =>
             /\ pgCall'[k].pc = "COMMIT" =>
                   /\ pgCall[k].pc \in {"SELECT", "WRITE"}
                   /\ ~PgStmtFails(k)
                   /\ pgCall[k].pc = "SELECT" => pgCall'[k].todo = <<>>
                   /\ pgCall[k].pc = "WRITE" => Len(pgCall[k].todo) = 1
             /\ (pgCall[k].pc \in {"SELECT", "WRITE"} /\ PgStmtFails(k)) =>
                   pgCall'[k].pc = "ROLLBACK"
             /\ pgCall[k].pc = "ROLLBACK" =>
                   pgCall'[k].pc = "done" /\ ~pgLog'[Len(pgLog')].ok
             /\ pgCall'[k].pc = "done" =>
                   \/ pgCall[k].pc \in {"COMMIT", "ROLLBACK"}
                   \/ pgCall[k].pc = "BEGIN" /\ PgStmtFails(k)]_vars

\* with a session per call, one call has committed and returned and another
\* one has met a failing statement, rolled back and thrown
C32_Witness ==
    /\ pgMax = NumPgCalls
    /\ \E i \in 1..Len(pgLog) : pgLog[i].ok
    /\ \E i \in 1..Len(pgLog) : ~pgLog[i].ok

\* C33: after any sequence of init and shutdown calls on MemoryFixedWindowStore
\* at most one sweep timer is active; right after shutdown no sweep timer is
\* active and the client map is empty; and a shutdown that follows a shutdown
\* changes nothing.
C33_OneTimerAndShutdownIdempotent ==
    [][/\ Cardinality(tmTimers') <= 1
       /\ tmLast' = "shutdown" => (tmTimers' = {} /\ tmClients' = {})
       /\ (tmLast = "shutdown" /\ tmLast' = "shutdown" /\ tmOps' # tmOps) =>
             UNCHANGED <<tmTimers, tmInterval, tmClients>>]_vars

\* the store was initialised twice and then shut down
C33_Witness == tmLast = "shutdown" /\ tmInterval = 2 /\ tmOps = MaxTmOps

\* C34: the remaining_capacity that PostgresLeakyBucketStore has stored for a
\* key is always within 0..bucket_capacity, also when the amount leaked since
\* last_updated is a fraction of one request.
C34_LbLevelWithinBounds ==
    (pgKind = "lb" /\ pgRow.exists) => (0 <= pgRow.level /\ pgRow.level <= LbCapacity)

\* C35: whenever no method of LeakyBucket is executing, totalCost equals the
\* sum of the costs of the items in the queue.
C35_TotalCostIsQueueCost == lkTotalCost = LkCostOf(lkQueue)

\* pause or pauseByCost has been called
LkPaused == \E p \in LkCalls : lkItem[p].isPause
\* throttle(1) would be accepted: it passes the overflow test
LkAccepts == ~LkOverflow(LkBucket, 1)

\* C36: after pause(seconds) or pauseByCost(cost), whatever the argument, the
\* bucket eventually is again in a state in which throttle(1) is accepted.
C36_PauseNeverWedges == LkPaused ~> LkAccepts

\* the entries of client c in globalQueue
MlQueued(c) == Cardinality({i \in 1..Len(mlQueue) : mlQueue[i] = c})

\* C37: clientRequestCounts[c] (0 when absent) equals the number of entries of
\* client c in globalQueue, so no client has more than clientMaxRequests
\* entries queued, and the queue is never longer than globalLimit.
C37_CountsMatchQueue ==
    /\ \A c \in MlClients :
          /\ mlCount[c] = MlQueued(c)
          /\ MlQueued(c) <= MlClientMaxRequests
    /\ Len(mlQueue) <= MlGlobalLimit

\* C38: every CONSUME_TOKEN returns the same admitted flag and the same token
\* count in the run in which the key expires by its TTL as in the run in
\* which the key is kept forever.
C38_ExpiryUnobservable == xpRet.a = xpRet.b

\* a CONSUME_TOKEN has found the key expired by its TTL, and the last call
\* has taken the last token of the bucket
C38_Witness == xpExpired /\ xpRet.a.tokens < MaxTokens - 1

\* C39: the Decision published by the tokenBucket middleware has remaining =
\* the tokens left in the bucket (the further requests admitted at once) and
\* used = the tokens consumed: a rejected request carries remaining = 0, and
\* a request admitted with u tokens consumed carries used = u, remaining = L - u.
C39_DecisionCountsTokensLeft ==
    \A r \in TbReqs :
        tbReq[r].pc = "done" =>
            /\ ~tbReq[r].admitted => TbInfo(tbReq[r].ret).remaining = 0
            /\ tbReq[r].admitted =>
                  /\ TbInfo(tbReq[r].ret).remaining = tbReq[r].ret
                  /\ TbInfo(tbReq[r].ret).used = MaxTokens - tbReq[r].ret

\* request r holds the result of its increment and has not read it yet
FwHolds(r) == fwBackend = "memory" /\ fwReq[r].pc = "awaitInc"

\* C40: the result MemoryFixedWindowStore.increment has returned to a caller
\* is not changed by any later increment, decrement, resetKey or sweep, and
\* the results two callers hold for one window of the key are different.
C40_ResultsAreSnapshots ==
    [][\A r \in Reqs :
          (FwHolds(r) /\ fwReq'[r].pc = "awaitInc") =>
             /\ fwHeap'[fwReq'[r].ref] = fwHeap[fwReq[r].ref]
             /\ \A q \in Reqs \ {r} :
                   (FwHolds(q) /\ fwReq[q].gen = fwReq[r].gen) =>
                       fwHeap[fwReq[q].ref].totalHits # fwHeap[fwReq[r].ref].totalHits]_vars

====
